---- MODULE Spec2Model ----
(***************************************************************************)
(* Link Explorer (the second IIFE of src/tools/mov-to-gif/app.js): a model *)
(* of its module state, its URL / fetch / extraction utilities and its     *)
(* user actions.  JavaScript strings are sequences of one-character        *)
(* strings, so that the string operations of the code (startsWith,         *)
(* substring, lastIndexOf, the regular expressions, the URL parser) are    *)
(* computed and not assumed.                                               *)
(***************************************************************************)
EXTENDS Integers, Sequences, FiniteSets, Bags, TLC

(***************************************************************************)
(* JavaScript string helpers                                               *)
(***************************************************************************)
LowerChars == <<"a","b","c","d","e","f","g","h","i","j","k","l","m",
                "n","o","p","q","r","s","t","u","v","w","x","y","z">>

UpperChars == <<"A","B","C","D","E","F","G","H","I","J","K","L","M",
                "N","O","P","Q","R","S","T","U","V","W","X","Y","Z">>

DigitChars == <<"0","1","2","3","4","5","6","7","8","9">>

Range(s) == {s[i] : i \in DOMAIN s}

UpperSet == Range(UpperChars)

AlphaSet == Range(LowerChars) \cup UpperSet

AlnumSet == AlphaSet \cup Range(DigitChars)

\* /\s/ : the white space of the inputs (space, tab, newline)
SpaceSet == {" ", "\t", "\n"}

\* String.prototype.toLowerCase on one character
LowerOf == [c \in UpperSet |->
               LowerChars[CHOOSE i \in DOMAIN UpperChars : UpperChars[i] = c]]

ToLowerChar(c) == IF c \in UpperSet THEN LowerOf[c] ELSE c

ToLower(s) == [i \in DOMAIN s |-> ToLowerChar(s[i])]

\* s.startsWith(p)
StartsWith(s, p) == Len(s) >= Len(p) /\ SubSeq(s, 1, Len(p)) = p

\* s.endsWith(p)
EndsWith(s, p) == Len(s) >= Len(p) /\ SubSeq(s, Len(s) - Len(p) + 1, Len(s)) = p

\* s.substring(from) with a 1-based first position
From(s, i) == SubSeq(s, i, Len(s))

\* the 1-based position of the first character of s at or after `from` that
\* lies in `set`; Len(s) + 1 when there is none
FirstIn(s, set, from) ==
    LET hits == {i \in from..Len(s) : s[i] \in set}
    IN  IF hits = {} THEN Len(s) + 1
        ELSE CHOOSE i \in hits : \A j \in hits : i <= j

\* the 1-based position of the first character at or after `from` that is
\* not in `set`; Len(s) + 1 when there is none
FirstNotIn(s, set, from) ==
    LET hits == {i \in from..Len(s) : s[i] \notin set}
    IN  IF hits = {} THEN Len(s) + 1
        ELSE CHOOSE i \in hits : \A j \in hits : i <= j

\* s.lastIndexOf(c) + 1 : the 1-based position of the last c, 0 when absent
LastIndexOf(s, c) ==
    LET hits == {i \in DOMAIN s : s[i] = c}
    IN  IF hits = {} THEN 0
        ELSE CHOOSE i \in hits : \A j \in hits : j <= i

\* s.trim()
Trim(s) ==
    LET keep == {i \in DOMAIN s : s[i] \notin SpaceSet}
    IN  IF keep = {} THEN <<>>
        ELSE SubSeq(s, CHOOSE i \in keep : \A j \in keep : i <= j,
                       CHOOSE i \in keep : \A j \in keep : j <= i)

\* s.replace(/\s+/g, ' ')
\* every run of white space gives one space: its first character is
\* replaced, its other characters are dropped
CollapseSpaces(s) ==
    LET marked == [i \in DOMAIN s |->
                      [ch   |-> IF s[i] \in SpaceSet THEN " " ELSE s[i],
                       kept |-> \/ s[i] \notin SpaceSet
                                \/ i = 1
                                \/ s[i - 1] \notin SpaceSet]]
        Kept(m) == m.kept
    IN  IF s = <<>> THEN <<>>
        ELSE [k \in DOMAIN SelectSeq(marked, Kept) |-> SelectSeq(marked, Kept)[k].ch]

\* s.substring(0, n)
Take(s, n) == SubSeq(s, 1, IF Len(s) < n THEN Len(s) ELSE n)

\* s.split(sep) for a one-character separator
RECURSIVE Split(_, _)
Split(s, sep) ==
    LET k == FirstIn(s, {sep}, 1)
    IN  IF k > Len(s) THEN <<s>>
        ELSE <<SubSeq(s, 1, k - 1)>> \o Split(From(s, k + 1), sep)

\* parts.join(sep)
RECURSIVE Join(_, _)
Join(parts, sep) ==
    IF parts = <<>> THEN <<>>
    ELSE IF Len(parts) = 1 THEN parts[1]
    ELSE parts[1] \o sep \o Join(Tail(parts), sep)

\* arr.filter(Boolean) on an array of strings: the non-empty ones
RECURSIVE FilterNonEmpty(_)
FilterNonEmpty(parts) ==
    IF parts = <<>> THEN <<>>
    ELSE IF parts[1] = <<>> THEN FilterNonEmpty(Tail(parts))
    ELSE <<parts[1]>> \o FilterNonEmpty(Tail(parts))

(***************************************************************************)
(* new URL(s): the WHATWG parser on the inputs of this model (no userinfo, *)
(* no port, no percent-encoding, no backslash).  The result has ok = FALSE *)
(* where the constructor throws.                                           *)
(***************************************************************************)
NoUrl == [ok |-> FALSE, protocol |-> <<>>, hostname |-> <<>>, pathname |-> <<>>,
          hasQuery |-> FALSE, query |-> <<>>, hasHash |-> FALSE, fragment |-> <<>>]

SchemeTail == AlnumSet \cup {"+", "-", "."}

HostSet == AlnumSet \cup {"-", "."}

HttpSchemes == {<<"h","t","t","p">>, <<"h","t","t","p","s">>}

\* the path state: "." and ".." segments are resolved, the result starts with "/"
RECURSIVE PathSegments(_, _)
PathSegments(segs, acc) ==
    IF segs = <<>> THEN acc
    ELSE LET seg  == segs[1]
             last == Len(segs) = 1
             pop  == IF acc = <<>> THEN <<>> ELSE SubSeq(acc, 1, Len(acc) - 1)
         IN  IF seg = <<".", ".">>
             THEN PathSegments(Tail(segs), IF last THEN Append(pop, <<>>) ELSE pop)
             ELSE IF seg = <<".">>
             THEN PathSegments(Tail(segs), IF last THEN Append(acc, <<>>) ELSE acc)
             ELSE PathSegments(Tail(segs), Append(acc, seg))

NormalizePath(p) ==
    IF p = <<>> THEN <<"/">>
    ELSE LET body == IF p[1] = "/" THEN Tail(p) ELSE p
             segs == PathSegments(Split(body, "/"), <<>>)
         IN  <<"/">> \o Join(segs, <<"/">>)

\* the URL record of "scheme://host" followed by path, query and fragment
ParseTail(s, scheme, host, aEnd, pEnd, qEnd) ==
    [ok       |-> TRUE,
     protocol |-> scheme \o <<":">>,
     hostname |-> host,
     pathname |-> NormalizePath(SubSeq(s, aEnd, pEnd - 1)),
     hasQuery |-> pEnd <= Len(s) /\ s[pEnd] = "?",
     query    |-> IF pEnd <= Len(s) /\ s[pEnd] = "?"
                  THEN SubSeq(s, pEnd + 1, qEnd - 1) ELSE <<>>,
     hasHash  |-> qEnd <= Len(s),
     fragment |-> IF qEnd <= Len(s) THEN From(s, qEnd + 1) ELSE <<>>]

\* the host state: an empty host or a forbidden host character fails
ParseHost(s, scheme, host, aEnd, pEnd) ==
    IF host = <<>> \/ \E i \in DOMAIN host : host[i] \notin HostSet
    THEN NoUrl
    ELSE ParseTail(s, scheme, host, aEnd, pEnd, FirstIn(s, {"#"}, pEnd))

\* the authority runs from aStart to the first "/", "?" or "#"
ParseAuthority(s, scheme, aStart, aEnd) ==
    ParseHost(s, scheme, ToLower(SubSeq(s, aStart, aEnd - 1)), aEnd,
              FirstIn(s, {"?", "#"}, aEnd))

\* after "scheme:"; for http(s) any run of slashes before the authority is
\* skipped; of another scheme only the protocol is read by the code
ParseAfterScheme(s, colon, scheme, aStart) ==
    IF scheme \notin HttpSchemes
    THEN [NoUrl EXCEPT !.ok = TRUE, !.protocol = scheme \o <<":">>,
                       !.pathname = From(s, colon + 1)]
    ELSE ParseAuthority(s, scheme, aStart, FirstIn(s, {"/", "?", "#"}, aStart))

\* the scheme state: a letter, then letters, digits, "+", "-", ".", then ":"
ParseScheme(s, colon) ==
    IF ~(/\ colon <= Len(s)
         /\ colon > 1
         /\ s[1] \in AlphaSet
         /\ \A i \in 2..(colon - 1) : s[i] \in SchemeTail)
    THEN NoUrl
    ELSE ParseAfterScheme(s, colon, ToLower(SubSeq(s, 1, colon - 1)),
                          FirstNotIn(s, {"/"}, colon + 1))

ParseTrimmed(s) == ParseScheme(s, FirstIn(s, {":"}, 1))

ParseUrl(input) == ParseTrimmed(Trim(input))

\* URL.origin of an http(s) URL
Origin(u) == u.protocol \o <<"/", "/">> \o u.hostname

\* URL.href
Href(u) ==
    Origin(u) \o u.pathname
        \o (IF u.hasQuery THEN <<"?">> \o u.query ELSE <<>>)
        \o (IF u.hasHash THEN <<"#">> \o u.fragment ELSE <<>>)

\* the value null of a string-or-null result
NullStr == [isNull |-> TRUE, str |-> <<>>]

Str(s) == [isNull |-> FALSE, str |-> s]

\* url.match(/^https?:\/\//i)
MatchesHttpPrefix(url) ==
    LET l == ToLower(url)
    IN  \/ StartsWith(l, <<"h","t","t","p",":","/","/">>)
        \/ StartsWith(l, <<"h","t","t","p","s",":","/","/">>)

\* normalizeUrl, the branch for a URL that is resolved against the base
ResolveAgainst(url, base) ==
    IF ~base.ok THEN NullStr
    ELSE IF StartsWith(url, <<"/", "/">>)
    THEN Str(base.protocol \o url)
    ELSE IF StartsWith(url, <<"/">>)
    THEN Str(Origin(base) \o url)
    ELSE Str(Origin(base)
             \o SubSeq(base.pathname, 1, LastIndexOf(base.pathname, "/"))
             \o url)

\* normalizeUrl, the branch for a URL that is parsed on its own
Canonical(parsed) ==
    IF ~parsed.ok THEN NullStr
    ELSE IF parsed.protocol \notin {<<"h","t","t","p",":">>,
                                    <<"h","t","t","p","s",":">>}
    THEN NullStr
    ELSE Str(Href([parsed EXCEPT !.hasHash = FALSE, !.fragment = <<>>]))

\* normalizeUrl(url, baseUrl): baseUrl is a string-or-null
normalizeUrl(url, baseUrl) ==
    IF ~baseUrl.isNull /\ ~MatchesHttpPrefix(url)
    THEN ResolveAgainst(url, ParseUrl(baseUrl.str))
    ELSE Canonical(ParseUrl(url))

\* the hostname of a parsed URL, null where new URL threw
HostnameOf(u) == IF u.ok THEN Str(u.hostname) ELSE NullStr

\* getDomain(url): the hostname, or null
getDomain(url) == HostnameOf(ParseUrl(url))

(***************************************************************************)
(* CONFIG                                                                  *)
(***************************************************************************)
MAX_LINKS_PER_PAGE == 50

\* CONFIG.CORS_PROXIES.length
NumProxies == 3

\* the alternatives of /\.(jpg|jpeg|...|mov)$/i
FileExtensions ==
    { <<"j","p","g">>, <<"j","p","e","g">>, <<"p","n","g">>, <<"g","i","f">>,
      <<"s","v","g">>, <<"w","e","b","p">>, <<"i","c","o">>, <<"p","d","f">>,
      <<"z","i","p">>, <<"t","a","r">>, <<"g","z">>, <<"m","p","3">>,
      <<"m","p","4">>, <<"a","v","i">>, <<"m","o","v">> }

\* EXCLUDE_LINK_PATTERNS without the pattern of the file extensions
shouldExcludeUrlKeepsFiles(url) ==
    LET l == ToLower(url)
    IN  \/ StartsWith(url, <<"#">>)
        \/ StartsWith(l, <<"j","a","v","a","s","c","r","i","p","t",":">>)
        \/ StartsWith(l, <<"m","a","i","l","t","o",":">>)
        \/ StartsWith(l, <<"t","e","l",":">>)
        \/ StartsWith(l, <<"d","a","t","a",":">>)
        \/ (Len(url) >= 3 /\ url[1] = "/" /\ url[2] = "/" /\ url[3] # "/")

\* CONFIG.EXCLUDE_LINK_PATTERNS, one disjunct per regular expression
shouldExcludeUrl(url) ==
    LET l == ToLower(url)
    IN  \/ StartsWith(url, <<"#">>)
        \/ StartsWith(l, <<"j","a","v","a","s","c","r","i","p","t",":">>)
        \/ StartsWith(l, <<"m","a","i","l","t","o",":">>)
        \/ StartsWith(l, <<"t","e","l",":">>)
        \/ StartsWith(l, <<"d","a","t","a",":">>)
        \/ \E e \in FileExtensions : EndsWith(l, <<".">> \o e)
        \/ (Len(url) >= 3 /\ url[1] = "/" /\ url[2] = "/" /\ url[3] # "/")

(***************************************************************************)
(* HTML PARSING & LINK EXTRACTION                                          *)
(* A response body is a record: hasLt (html.includes('<')), length         *)
(* (html.length), title (the text of <title>, empty when absent) and       *)
(* anchors, the a[href] elements left in the main content area once the    *)
(* excluded elements are removed, in document order, each with its href    *)
(* attribute and its textContent.                                          *)
(***************************************************************************)
\* decodeURIComponent on a string without "%"
decodeURIComponent(s) == s

\* the name taken from the URL when the anchor has no text
TextFromUrl(u, normalizedUrl) ==
    IF ~u.ok THEN normalizedUrl
    ELSE IF FilterNonEmpty(Split(u.pathname, "/")) # <<>>
    THEN decodeURIComponent(
             FilterNonEmpty(Split(u.pathname, "/"))[
                 Len(FilterNonEmpty(Split(u.pathname, "/")))])
    ELSE decodeURIComponent(u.hostname)

\* the text of a link: the cleaned anchor text, or a name taken from the URL
CleanText(text, normalizedUrl) ==
    IF text # <<>> THEN text
    ELSE TextFromUrl(ParseUrl(normalizedUrl), normalizedUrl)

LinkText(anchorText, normalizedUrl) ==
    CleanText(Take(CollapseSpaces(Trim(anchorText)), 200), normalizedUrl)

\* linksMap.set that marks every link as external
SetLinkAllExternal(linksMap, text, normalizedUrl, domain, sourceDomain) ==
    Append(linksMap,
           [url        |-> normalizedUrl,
            text       |-> text,
            isExternal |-> TRUE,
            domain     |-> domain])

\* linksMap.set(normalizedUrl, {...})
SetLink(linksMap, text, normalizedUrl, domain, sourceDomain) ==
    Append(linksMap,
           [url        |-> normalizedUrl,
            text       |-> text,
            isExternal |-> domain # sourceDomain,
            domain     |-> domain])

\* anchors.forEach where a later anchor of a URL replaces the text of its link
AddNormalizedLastWins(linksMap, anchor, sourceUrl, normalizedUrl) ==
    IF normalizedUrl.isNull THEN linksMap
    ELSE IF normalizedUrl.str = sourceUrl THEN linksMap
    ELSE IF \E i \in DOMAIN linksMap : linksMap[i].url = normalizedUrl.str
    THEN [i \in DOMAIN linksMap |->
             IF linksMap[i].url = normalizedUrl.str
             THEN [linksMap[i] EXCEPT !.text = LinkText(anchor.text, normalizedUrl.str)]
             ELSE linksMap[i]]
    ELSE SetLink(linksMap, LinkText(anchor.text, normalizedUrl.str),
                 normalizedUrl.str, getDomain(normalizedUrl.str),
                 getDomain(sourceUrl))

\* the body of anchors.forEach once the href is normalized
AddNormalized(linksMap, anchor, sourceUrl, normalizedUrl) ==
    IF normalizedUrl.isNull THEN linksMap
    ELSE IF normalizedUrl.str = sourceUrl THEN linksMap
    ELSE IF \E i \in DOMAIN linksMap : linksMap[i].url = normalizedUrl.str
    THEN linksMap
    ELSE SetLink(linksMap, LinkText(anchor.text, normalizedUrl.str),
                 normalizedUrl.str, getDomain(normalizedUrl.str),
                 getDomain(sourceUrl))

\* the body of anchors.forEach: linksMap after one more anchor
AddAnchor(linksMap, anchor, sourceUrl) ==
    IF shouldExcludeUrl(anchor.href) THEN linksMap
    ELSE AddNormalized(linksMap, anchor, sourceUrl,
                       normalizeUrl(anchor.href, Str(sourceUrl)))

\* anchors.forEach: the map is updated for an anchor before the next one is
\* visited
RECURSIVE LinksMap(_, _, _)
LinksMap(anchors, sourceUrl, acc) ==
    IF Len(acc) >= 0 /\ anchors # <<>>
    THEN LinksMap(Tail(anchors), sourceUrl, AddAnchor(acc, anchors[1], sourceUrl))
    ELSE acc

\* the title of the page: the text of <title>, or the domain of the source
PageTitle(title, sourceUrl) ==
    IF title # <<>> THEN Str(title) ELSE getDomain(sourceUrl)

\* extractLinks that counts the links it returns instead of those it found
ExtractResultCountsReturned(linksMap, title, sourceUrl) ==
    [title        |-> title,
     url          |-> sourceUrl,
     links        |-> Take(linksMap, MAX_LINKS_PER_PAGE),
     totalFound   |-> Len(Take(linksMap, MAX_LINKS_PER_PAGE)),
     wasTruncated |-> Len(linksMap) >= MAX_LINKS_PER_PAGE]

\* extractLinks without the slice to MAX_LINKS_PER_PAGE
ExtractResultUncapped(linksMap, title, sourceUrl) ==
    [title        |-> title,
     url          |-> sourceUrl,
     links        |-> linksMap,
     totalFound   |-> Len(linksMap),
     wasTruncated |-> Len(linksMap) > MAX_LINKS_PER_PAGE]

\* the value extractLinks returns for the links found
ExtractResult(linksMap, title, sourceUrl) ==
    [title        |-> title,
     url          |-> sourceUrl,
     links        |-> Take(linksMap, MAX_LINKS_PER_PAGE),
     totalFound   |-> Len(linksMap),
     wasTruncated |-> Len(linksMap) > MAX_LINKS_PER_PAGE]

extractLinks(html, sourceUrl) ==
    ExtractResult(LinksMap(html.anchors, sourceUrl, <<>>),
                  PageTitle(Trim(html.title), sourceUrl), sourceUrl)

(***************************************************************************)
(* The world outside the program: the raw inputs of the URL field and the  *)
(* bodies the proxies can answer with.                                     *)
(***************************************************************************)
\* the most node objects a run allocates (startExploration and
\* loadNodeChildren are not started when their nodes would not fit)
MaxNodes == 4

\* the most calls that wait for a proxy response at the same time
MaxInflight == 2

UrlA == <<"h","t","t","p",":","/","/","a","/">>

UrlAX == <<"h","t","t","p",":","/","/","a","/","x">>

UrlB == <<"h","t","t","p",":","/","/","b","/">>

\* what the user may type: two valid seeds that are not yet normalized and
\* two that normalizeUrl rejects
SeedInputs ==
    { <<"H","T","T","P",":","/","/","A">>,
      <<"h","t","t","p",":","/","/","b","/","#","f">>,
      <<"f","t","p",":","/","/","a","/">>,
      <<"a"," ","b">> }

Anchor(href, text) == [href |-> href, text |-> text]

\* the page a proxy serves for a URL when it passes the site through
SitePage(url) ==
    IF url = UrlA
    THEN [hasLt |-> TRUE, length |-> 100, title |-> <<"A">>,
          anchors |-> << Anchor(<<"/","x">>, <<" ","X"," ">>),
                         Anchor(<<"#","t","o","p">>, <<"t">>),
                         Anchor(UrlAX, <<"d","u","p">>),
                         Anchor(<<"/","/","b","/">>, <<"c","d","n">>),
                         Anchor(UrlB, <<>>),
                         Anchor(UrlA, <<"s","e","l","f">>) >>]
    ELSE IF url = UrlAX
    THEN [hasLt |-> TRUE, length |-> 100, title |-> <<>>,
          anchors |-> << Anchor(<<"/">>, <<"u","p">>) >>]
    ELSE [hasLt |-> TRUE, length |-> 100, title |-> <<"B">>,
          anchors |-> << Anchor(<<"#">>, <<"t","o","p">>) >>]

\* the URLs of the site pages
SiteUrls == {UrlA, UrlAX, UrlB}

\* no body at all (the html of a fetch that failed)
NoBody == [hasLt |-> FALSE, length |-> 0, title |-> <<>>, anchors |-> <<>>]

\* bodies that are not HTML: too short, or without any "<"
ShortBody == [hasLt |-> TRUE, length |-> 99, title |-> <<>>, anchors |-> <<>>]

TextBody == [hasLt |-> FALSE, length |-> 100, title |-> <<>>, anchors |-> <<>>]

\* the responses a proxy request for `url` can end with; ok = FALSE stands
\* for a network error as well as for a non-2xx status
Responses(url) ==
    { [ok |-> TRUE,  html |-> SitePage(url)],
      [ok |-> TRUE,  html |-> ShortBody],
      [ok |-> TRUE,  html |-> TextBody],
      [ok |-> FALSE, html |-> SitePage(url)] }

(***************************************************************************)
(* STATE                                                                   *)
(***************************************************************************)
VARIABLES
    treeData,           \* the root node object (an address of heap), 0 = null
    allDiscoveredUrls,  \* Set of URLs
    expandedNodes,      \* Set of node ids
    workingProxyIndex,
    nodeIdCounter,
    heap,               \* the node objects ever created, by address
    inflight,           \* the calls of startExploration / loadNodeChildren
                        \* that wait for a proxy response (a bag)
    view,               \* what the user sees of linkTree / emptyState:
                        \* "empty" while linkTree is hidden
    stats,              \* the stats bar, as the user sees it
    toast,              \* the toast the last step showed, <<>> for none
    loadsIssued,        \* history: per node object, the fetchWithProxy calls
                        \* made for its children
    lastFetch,          \* history: the fetchWithProxy call that ended in the
                        \* last step, or the loadNodeChildren call that
                        \* returned at its guard in it
    args,               \* the arguments of a direct call of normalizeUrl or
                        \* of extractLinks
    returned,           \* what that call returned
    \* src/app.js, the theme of the pages of the site
    readyState,         \* per document: "closed" (not open), "loading" (the
                        \* script has run, DOMContentLoaded not yet fired),
                        \* "ready" (onDOMReady has run)
    dataTheme,          \* per document: the data-theme attribute of <html>
    themeReady,         \* per document: <html> has the class theme-ready
    themeIcon,          \* per document: the icon with the class visible
    localStorage,       \* the item THEME_KEY, shared by the documents
    prefersDark,        \* matchMedia('(prefers-color-scheme: dark)').matches
    userChose,          \* history: the user has clicked the theme toggle
    \* src/tools/jsonl-viewer/app.js
    validEntries,
    invalidEntries,
    filteredEntries,
    currentPage,
    searchInput,        \* searchInput.value
    searchTimer,        \* the timer of the debounced handleSearch is armed
    reading,            \* the files a FileReader is reading
    searchBar,          \* searchBar has the class visible
    pagination,         \* the pagination bar: visible, the page and the total
                        \* of paginationInfo, prevBtn and nextBtn disabled
    rendered,           \* the slice of filteredEntries in entriesContainer
    lastCall,           \* history: the handler that ran in the last step
    \* src/tools/mov-to-gif/app.js, the GIF converter
    currentFile,        \* the video file, 0 = null
    previewSrc,         \* previewVideo.src: the file of its object URL, 0 = ''
    isCancelled,
    gifEncoder,         \* the conversion whose encoder it is, 0 = null
    generatedGifBlob,   \* the blob with its object URL (generatedGifUrl);
                        \* history: the conversion that made it
    conversions,        \* the calls of startConversion that have not ended
    started,            \* history: how many conversions were started
    panels,             \* dropZone, settingsPanel, progressSection and
                        \* outputSection are visible
    downloaded          \* history: what the last downloadGif did

\* the variables of the link explorer and of the direct calls
explorer == <<treeData, allDiscoveredUrls, expandedNodes, workingProxyIndex,
              nodeIdCounter, heap, inflight, view, stats, toast, loadsIssued,
              lastFetch, args, returned>>

\* the variables of the theme
themePage == <<readyState, dataTheme, themeReady, themeIcon, localStorage,
               prefersDark, userChose>>

\* the variables of the JSONL viewer
jsonlPage == <<validEntries, invalidEntries, filteredEntries, currentPage,
               searchInput, searchTimer, reading, searchBar, pagination,
               rendered, lastCall>>

\* the variables of the GIF converter
gifPage == <<currentFile, previewSrc, isCancelled, gifEncoder, generatedGifBlob,
             conversions, started, panels, downloaded>>

\* the variables of the pages other than the link explorer
otherPages == <<themePage, jsonlPage, gifPage>>

vars == <<explorer, otherPages>>

\* the documents of the site that can be open together
MaxDocs == 2

Docs == 1..MaxDocs

Light == <<"l","i","g","h","t">>

Dark == <<"d","a","r","k">>

\* a first visit: no document is open and nothing is stored
DocsClosed ==
    /\ readyState = [d \in Docs |-> "closed"]
    /\ dataTheme = [d \in Docs |-> NullStr]
    /\ themeReady = [d \in Docs |-> FALSE]
    /\ themeIcon = [d \in Docs |-> "none"]
    /\ localStorage = NullStr
    /\ userChose = FALSE

\* the pagination bar before updatePagination has run
NoPagination ==
    [visible |-> FALSE, page |-> 0, total |-> 0,
     prevDisabled |-> FALSE, nextDisabled |-> FALSE]

\* the JSONL viewer after init: nothing is loaded
ViewerEmpty ==
    /\ validEntries = <<>>
    /\ invalidEntries = <<>>
    /\ filteredEntries = <<>>
    /\ currentPage = 0
    /\ searchInput = <<>>
    /\ searchTimer = FALSE
    /\ reading = {}
    /\ searchBar = FALSE
    /\ pagination = NoPagination
    /\ rendered = <<0, 0>>
    /\ lastCall = [fn |-> "init", page |-> 0]

\* no generated GIF
NoBlob == [conversion |-> 0, file |-> 0, cancelled |-> FALSE, replaced |-> FALSE]

\* the sections of the converter when the page is loaded or reset
UploadPanels ==
    [dropZone |-> TRUE, settingsPanel |-> FALSE, progressSection |-> FALSE,
     outputSection |-> FALSE]

\* the GIF converter after init: no video
ConverterEmpty ==
    /\ currentFile = 0
    /\ previewSrc = 0
    /\ isCancelled = FALSE
    /\ gifEncoder = 0
    /\ generatedGifBlob = NoBlob
    /\ conversions = {}
    /\ started = 0
    /\ panels = UploadPanels
    /\ downloaded = <<>>

\* the other pages while the link explorer runs: none is open
PagesClosed ==
    /\ DocsClosed
    /\ prefersDark = FALSE
    /\ ViewerEmpty
    /\ ConverterEmpty

\* `node-${n}`
NodeId(n) == <<"node-", n>>

\* node.children: null, or an array of node objects
NullChildren == [isNull |-> TRUE, items |-> <<>>]

Children(items) == [isNull |-> FALSE, items |-> items]

\* node.error: null (the empty sequence) or a message
NoError == <<>>

AllProxiesFailed == <<"All CORS proxies failed">>

(***************************************************************************)
(* TREE DATA STRUCTURE                                                     *)
(***************************************************************************)
\* createNode, called when nodeIdCounter is `counter`
createNode(counter, url, text, isExternal, isRoot) ==
    [id           |-> NodeId(counter + 1),
     url          |-> url,
     text         |-> text,
     isExternal   |-> isExternal,
     isRoot       |-> isRoot,
     domain       |-> getDomain(url),
     children     |-> NullChildren,
     isLoading    |-> FALSE,
     error        |-> NoError,
     totalFound   |-> 0,
     wasTruncated |-> FALSE]

\* result.links.map that takes one id for all the nodes it creates
ChildNodesOneId(links, counter) ==
    [k \in 1..Len(links) |->
        createNode(counter, links[k].url, Str(links[k].text),
                   links[k].isExternal, FALSE)]

\* result.links.map(link => createNode(link.url, link.text, link.isExternal))
\* with nodeIdCounter at `counter` before the first call
ChildNodes(links, counter) ==
    [k \in 1..Len(links) |->
        createNode(counter + k - 1, links[k].url, Str(links[k].text),
                   links[k].isExternal, FALSE)]

\* the addresses of n objects allocated after the `used` existing ones
NewAddrs(used, n) == [k \in 1..n |-> used + k]

\* a node object that nothing references any more (collected)
Freed == [createNode(0, <<>>, NullStr, FALSE, FALSE) EXCEPT !.id = NodeId(0)]

\* the node objects reachable from the object at address a
RECURSIVE Subtree(_, _), SubtreeList(_, _)
Subtree(h, a) ==
    IF a = 0 THEN {}
    ELSE {a} \cup (IF h[a].children.isNull THEN {}
                   ELSE SubtreeList(h, h[a].children.items))

SubtreeList(h, as) ==
    IF as = <<>> THEN {}
    ELSE Subtree(h, as[1]) \cup SubtreeList(h, Tail(as))

\* the node objects the program still references: the tree, and the nodes
\* held by the calls of loadNodeChildren that wait for a response
Live(h, root, calls) ==
    Subtree(h, root) \cup {c.node : c \in {d \in BagToSet(calls) : d.kind = "load"}}

\* the heap once the objects that are no longer referenced are collected
Sweep(h, root, calls) ==
    LET live == Live(h, root, calls)
    IN  [a \in DOMAIN h |-> IF a \in live THEN h[a] ELSE Freed]

\* the history kept for the objects that are still there
SweepCount(cnt, h, root, calls) ==
    LET live == Live(h, root, calls)
    IN  [a \in DOMAIN cnt |-> IF a \in live THEN cnt[a] ELSE 0]

\* loadNodeChildren with a guard that forgets the isLoading flag
CanLoadWhileLoading(node) == node.children.isNull

\* the first guard of loadNodeChildren, negated: the load goes ahead
CanLoad(node) == ~(node.isLoading \/ ~node.children.isNull)

\* fetchWithProxy that does not look at the length of the body
ResponseIsHtmlAnyLength(resp) ==
    /\ resp.ok
    /\ resp.html.hasLt

\* the check of a proxy response in fetchWithProxy
ResponseIsHtml(resp) ==
    /\ resp.ok
    /\ ~(~resp.html.hasLt \/ resp.html.length < 100)

\* fetchWithProxy that skips a proxy when it falls back
NextProxySkips(p) == p + 2

\* the proxy fetchWithProxy turns to after proxy p failed
NextProxy(p) == p + 1

\* the proxy the root fetch of startExploration starts with (the default
\* value of the parameter proxyIndex)
DefaultProxyIndex == 0

(***************************************************************************)
(* TREE RENDERING and STATS                                                *)
(***************************************************************************)
\* renderNode: the node objects that get an <li>, in document order
RECURSIVE RenderNode(_, _, _), RenderList(_, _, _)
RenderNode(h, expanded, a) ==
    LET node        == h[a]
        isExpanded  == node.id \in expanded
        hasChildren == ~node.children.isNull /\ Len(node.children.items) > 0
    IN  <<a>> \o (IF isExpanded /\ hasChildren
                  THEN RenderList(h, expanded, node.children.items)
                  ELSE <<>>)

RenderList(h, expanded, as) ==
    IF as = <<>> THEN <<>>
    ELSE RenderNode(h, expanded, as[1]) \o RenderList(h, expanded, Tail(as))

\* renderTree: the new content of the tree container
renderTree(root, h, expanded) ==
    IF root = 0 THEN [kind |-> "empty", nodes |-> <<>>]
    ELSE [kind |-> "tree", nodes |-> RenderNode(h, expanded, root)]

RECURSIVE countTotalLinks(_, _), CountList(_, _)
countTotalLinks(h, a) ==
    IF a = 0 THEN 0
    ELSE 1 + (IF ~h[a].children.isNull THEN CountList(h, h[a].children.items)
              ELSE 0)

CountList(h, as) ==
    IF as = <<>> THEN 0
    ELSE countTotalLinks(h, as[1]) + CountList(h, Tail(as))

RECURSIVE getUniqueDomains(_, _), DomainsList(_, _)
getUniqueDomains(h, a) ==
    IF a = 0 THEN {}
    ELSE (IF ~h[a].domain.isNull /\ h[a].domain.str # <<>>
          THEN {h[a].domain.str} ELSE {})
         \cup (IF ~h[a].children.isNull THEN DomainsList(h, h[a].children.items)
               ELSE {})

DomainsList(h, as) ==
    IF as = <<>> THEN {}
    ELSE getUniqueDomains(h, as[1]) \cup DomainsList(h, Tail(as))

\* the stats bar while it is hidden: its numbers cannot be seen, and every
\* call that shows it again sets the three of them, so they are not kept
HiddenStats == [hidden |-> TRUE, total |-> 0, expanded |-> 0, domains |-> 0]

\* updateStats: the new state of the stats bar
updateStats(old, root, h, expanded) ==
    IF root = 0 THEN HiddenStats
    ELSE [hidden   |-> FALSE,
          total    |-> countTotalLinks(h, root),
          expanded |-> Cardinality(expanded),
          domains  |-> Cardinality(getUniqueDomains(h, root))]

(***************************************************************************)
(* USER ACTIONS                                                            *)
(***************************************************************************)
\* findNodeById: the address of the first node with this id in a depth-first
\* walk from a, 0 when there is none
RECURSIVE findNodeById(_, _, _), FindInList(_, _, _)
findNodeById(h, a, id) ==
    IF a = 0 THEN 0
    ELSE IF h[a].id = id THEN a
    ELSE IF ~h[a].children.isNull THEN FindInList(h, h[a].children.items, id)
    ELSE 0

FindInList(h, as, id) ==
    IF as = <<>> THEN 0
    ELSE LET found == findNodeById(h, as[1], id)
         IN  IF found # 0 THEN found ELSE FindInList(h, Tail(as), id)

\* normalizeUrl(url) on what the user may type, computed once
NormalizedSeed == [url \in SeedInputs |-> normalizeUrl(url, NullStr)]

\* extractLinks(html, url) on the pages of the sites, computed once
Extracted == [url \in SiteUrls |-> extractLinks(SitePage(url), url)]

\* extractLinks(html, url), read from Extracted where it is there
ExtractLinksOf(html, url) ==
    IF url \in SiteUrls /\ html = SitePage(url) THEN Extracted[url]
    ELSE extractLinks(html, url)

\* the node objects a call can still allocate
Need(kind, url) ==
    Len(Extracted[url].links) + (IF kind = "explore" THEN 1 ELSE 0)

RECURSIVE SumNeed(_, _)
SumNeed(calls, set) ==
    IF set = {} THEN 0
    ELSE LET c == CHOOSE d \in set : TRUE
         IN  CopiesIn(c, calls) * Need(c.kind, c.url) + SumNeed(calls, set \ {c})

Reserved(calls) == SumNeed(calls, BagToSet(calls))

HasRoom(kind, url) ==
    /\ BagCardinality(inflight) < MaxInflight
    /\ Len(heap) + Reserved(inflight) + Need(kind, url) <= MaxNodes

\* a call of fetchWithProxy(url, proxyIndex) that waits for its first response
Call(kind, node, url, proxyIndex) ==
    [kind |-> kind, node |-> node, url |-> url, start |-> proxyIndex,
     proxyIndex |-> proxyIndex, tried |-> <<>>, cleared |-> FALSE]

Add(calls, c) == calls (+) SetToBag({c})

Remove(calls, c) == calls (-) SetToBag({c})

MarkCleared(c) == [c EXCEPT !.cleared = TRUE]

NoFetch == [kind |-> "none", node |-> 0, url |-> <<>>, start |-> 0, tried |-> <<>>,
            ok |-> FALSE, proxyIndex |-> 0, html |-> NoBody, answer |-> NoBody]

NoToast == <<>>

\* no direct call of a utility function
NoArgs == [fn |-> "none"]

NotCalled == [called |-> FALSE]

\* the module state once the script has run
InitState ==
    /\ treeData = 0
    /\ allDiscoveredUrls = {}
    /\ expandedNodes = {}
    /\ workingProxyIndex = 0
    /\ nodeIdCounter = 0
    /\ heap = <<>>
    /\ inflight = EmptyBag
    /\ view = [kind |-> "empty", nodes |-> <<>>]
    /\ stats = HiddenStats
    /\ toast = NoToast
    /\ loadsIssued = <<>>
    /\ lastFetch = NoFetch

Init ==
    /\ InitState
    /\ PagesClosed
    /\ args = NoArgs
    /\ returned = NotCalled

\* startExploration that validates the URL after resetting the state
RejectUrlAfterReset ==
    /\ toast' = <<"Please enter a valid URL">>
    /\ lastFetch' = NoFetch
    /\ treeData' = 0
    /\ allDiscoveredUrls' = {}
    /\ expandedNodes' = {}
    /\ nodeIdCounter' = 0
    /\ heap' = Sweep(heap, treeData', inflight)
    /\ loadsIssued' = SweepCount(loadsIssued, heap, treeData', inflight)
    /\ UNCHANGED <<workingProxyIndex, inflight, view, stats>>

\* startExploration when normalizeUrl returned null: the toast, and return
RejectUrl ==
    /\ toast' = <<"Please enter a valid URL">>
    /\ lastFetch' = NoFetch
    /\ UNCHANGED <<treeData, allDiscoveredUrls, expandedNodes,
                   workingProxyIndex, nodeIdCounter, heap, inflight,
                   view, stats, loadsIssued>>

\* startExploration that also forgets the remembered proxy
ResetProxyAndFetch(normalizedUrl) ==
    /\ HasRoom("explore", normalizedUrl)
    /\ treeData' = 0
    /\ allDiscoveredUrls' = {}
    /\ expandedNodes' = {}
    /\ nodeIdCounter' = 0
    /\ workingProxyIndex' = DefaultProxyIndex
    /\ view' = [kind |-> "loading", nodes |-> <<>>]
    /\ stats' = HiddenStats
    /\ inflight' = Add(inflight, Call("explore", 0, normalizedUrl,
                                      DefaultProxyIndex))
    /\ heap' = Sweep(heap, treeData', inflight')
    /\ loadsIssued' = SweepCount(loadsIssued, heap, treeData', inflight')
    /\ toast' = NoToast
    /\ lastFetch' = NoFetch

\* startExploration from "Reset state" up to its await
ResetAndFetch(normalizedUrl) ==
    /\ HasRoom("explore", normalizedUrl)
    /\ treeData' = 0
    /\ allDiscoveredUrls' = {}
    /\ expandedNodes' = {}
    /\ nodeIdCounter' = 0
    /\ view' = [kind |-> "loading", nodes |-> <<>>]
    /\ stats' = HiddenStats
    /\ inflight' = Add(inflight, Call("explore", 0, normalizedUrl,
                                      DefaultProxyIndex))
    /\ heap' = Sweep(heap, treeData', inflight')
    /\ loadsIssued' = SweepCount(loadsIssued, heap, treeData', inflight')
    /\ toast' = NoToast
    /\ lastFetch' = NoFetch
    /\ UNCHANGED workingProxyIndex

\* startExploration(url), up to its await
StartExploration(url) ==
    IF NormalizedSeed[url].isNull
    THEN RejectUrl
    ELSE ResetAndFetch(NormalizedSeed[url].str)

\* the record (history) of a call of loadNodeChildren for the node object at
\* address a that returned at its first guard
Skipped(a) == [NoFetch EXCEPT !.kind = "skip", !.node = a]

\* loadNodeChildren that asks the first proxy first
LoadNodeChildrenFromFirst(a, expanded) ==
    IF ~CanLoad(heap[a])
    THEN /\ lastFetch' = Skipped(a)
         /\ UNCHANGED <<heap, inflight, view, loadsIssued>>
    ELSE /\ HasRoom("load", heap[a].url)
         /\ heap' = [heap EXCEPT ![a].isLoading = TRUE, ![a].error = NoError]
         /\ view' = renderTree(treeData, heap', expanded)
         /\ inflight' = Add(inflight, Call("load", a, heap[a].url, DefaultProxyIndex))
         /\ loadsIssued' = [loadsIssued EXCEPT ![a] = @ + 1]
         /\ lastFetch' = NoFetch

\* loadNodeChildren that fetches without marking the node as loading
LoadNodeChildrenUnmarked(a, expanded) ==
    IF ~CanLoad(heap[a])
    THEN /\ lastFetch' = Skipped(a)
         /\ UNCHANGED <<heap, inflight, view, loadsIssued>>
    ELSE /\ HasRoom("load", heap[a].url)
         /\ heap' = [heap EXCEPT ![a].error = NoError]
         /\ view' = renderTree(treeData, heap', expanded)
         /\ inflight' = Add(inflight, Call("load", a, heap[a].url, workingProxyIndex))
         /\ loadsIssued' = [loadsIssued EXCEPT ![a] = @ + 1]
         /\ lastFetch' = NoFetch

\* loadNodeChildren(node), up to its await, for the node object at address a
\* when the expansion set is already `expanded`
LoadNodeChildren(a, expanded) ==
    IF ~CanLoad(heap[a])
    THEN /\ lastFetch' = Skipped(a)
         /\ UNCHANGED <<heap, inflight, view, loadsIssued>>
    ELSE /\ HasRoom("load", heap[a].url)
         /\ heap' = [heap EXCEPT ![a].isLoading = TRUE, ![a].error = NoError]
         /\ view' = renderTree(treeData, heap', expanded)
         /\ inflight' = Add(inflight, Call("load", a, heap[a].url, workingProxyIndex))
         /\ loadsIssued' = [loadsIssued EXCEPT ![a] = @ + 1]
         /\ lastFetch' = NoFetch

\* handleToggle that fetches the children of a loaded node again
ExpandLoadedRefetches(nodeId, a) ==
    /\ HasRoom("load", heap[a].url)
    /\ expandedNodes' = expandedNodes \cup {nodeId}
    /\ lastFetch' = NoFetch
    /\ heap' = [heap EXCEPT ![a].isLoading = TRUE]
    /\ inflight' = Add(inflight, Call("load", a, heap[a].url, workingProxyIndex))
    /\ loadsIssued' = [loadsIssued EXCEPT ![a] = @ + 1]
    /\ view' = renderTree(treeData, heap', expandedNodes')
    /\ stats' = updateStats(stats, treeData, heap', expandedNodes')
    /\ UNCHANGED <<treeData, allDiscoveredUrls, workingProxyIndex, nodeIdCounter>>

\* handleToggle that expands a loaded node without rendering
ExpandLoadedNoRender(nodeId, a) ==
    /\ expandedNodes' = expandedNodes \cup {nodeId}
    /\ lastFetch' = NoFetch
    /\ UNCHANGED <<treeData, allDiscoveredUrls, workingProxyIndex,
                   nodeIdCounter, heap, inflight, loadsIssued, view, stats>>

\* handleToggle that drops the cached children of the node it expands
ExpandLoadedForgets(nodeId, a) ==
    /\ expandedNodes' = expandedNodes \cup {nodeId}
    /\ lastFetch' = NoFetch
    /\ heap' = Sweep([heap EXCEPT ![a].children = NullChildren], treeData, inflight)
    /\ loadsIssued' = SweepCount(loadsIssued, heap', treeData, inflight)
    /\ view' = renderTree(treeData, heap', expandedNodes')
    /\ stats' = updateStats(stats, treeData, heap', expandedNodes')
    /\ UNCHANGED <<treeData, allDiscoveredUrls, workingProxyIndex,
                   nodeIdCounter, inflight>>

\* the last branch of handleToggle: the node object at address a is
\* collapsed and its children are loaded
ExpandLoaded(nodeId, a) ==
    /\ expandedNodes' = expandedNodes \cup {nodeId}
    /\ lastFetch' = NoFetch
    /\ view' = renderTree(treeData, heap, expandedNodes')
    /\ stats' = updateStats(stats, treeData, heap, expandedNodes')
    /\ UNCHANGED <<treeData, allDiscoveredUrls, workingProxyIndex,
                   nodeIdCounter, heap, inflight, loadsIssued>>

\* handleToggle(nodeId)
HandleToggle(nodeId) ==
    LET a == findNodeById(heap, treeData, nodeId)
    IN  /\ toast' = NoToast
        /\ IF a = 0
           THEN /\ lastFetch' = NoFetch
                /\ UNCHANGED <<treeData, allDiscoveredUrls, expandedNodes,
                               workingProxyIndex, nodeIdCounter, heap, inflight,
                               view, stats, loadsIssued>>
           ELSE IF nodeId \in expandedNodes
           THEN /\ expandedNodes' = expandedNodes \ {nodeId}
                /\ lastFetch' = NoFetch
                /\ view' = renderTree(treeData, heap, expandedNodes')
                /\ stats' = updateStats(stats, treeData, heap, expandedNodes')
                /\ UNCHANGED <<treeData, allDiscoveredUrls, workingProxyIndex,
                               nodeIdCounter, heap, inflight, loadsIssued>>
           ELSE IF heap[a].children.isNull
           THEN /\ expandedNodes' = expandedNodes \cup {nodeId}
                /\ LoadNodeChildren(a, expandedNodes')
                /\ UNCHANGED <<treeData, allDiscoveredUrls, workingProxyIndex,
                               nodeIdCounter, stats>>
           ELSE ExpandLoaded(nodeId, a)

\* collapseAll that collapses the root as well
CollapseAllClearsSet ==
    /\ expandedNodes' = {}
    /\ view' = renderTree(treeData, heap, expandedNodes')
    /\ stats' = updateStats(stats, treeData, heap, expandedNodes')
    /\ toast' = <<"Collapsed all">>
    /\ lastFetch' = NoFetch
    /\ UNCHANGED <<treeData, allDiscoveredUrls, workingProxyIndex,
                   nodeIdCounter, heap, inflight, loadsIssued>>

\* collapseAll()
CollapseAll ==
    /\ expandedNodes' = IF treeData # 0 THEN {heap[treeData].id} ELSE expandedNodes
    /\ view' = renderTree(treeData, heap, expandedNodes')
    /\ stats' = updateStats(stats, treeData, heap, expandedNodes')
    /\ toast' = <<"Collapsed all">>
    /\ lastFetch' = NoFetch
    /\ UNCHANGED <<treeData, allDiscoveredUrls, workingProxyIndex,
                   nodeIdCounter, heap, inflight, loadsIssued>>

\* clearAll that leaves the tree in place
ClearAllKeepsTree ==
    /\ allDiscoveredUrls' = {}
    /\ expandedNodes' = {}
    /\ nodeIdCounter' = 0
    /\ view' = renderTree(treeData, heap, expandedNodes')
    /\ stats' = updateStats(stats, treeData, heap, expandedNodes')
    /\ toast' = <<"Cleared">>
    /\ inflight' = BagOfAll(MarkCleared, inflight)
    /\ lastFetch' = NoFetch
    /\ UNCHANGED <<treeData, workingProxyIndex, heap, loadsIssued>>

\* clearAll(); the calls that wait for a response are marked (history) as
\* issued before a clear
ClearAll ==
    /\ treeData' = 0
    /\ allDiscoveredUrls' = {}
    /\ expandedNodes' = {}
    /\ nodeIdCounter' = 0
    /\ view' = renderTree(treeData', heap, expandedNodes')
    /\ stats' = updateStats(stats, treeData', heap, expandedNodes')
    /\ toast' = <<"Cleared">>
    /\ inflight' = BagOfAll(MarkCleared, inflight)
    /\ heap' = Sweep(heap, treeData', inflight')
    /\ loadsIssued' = SweepCount(loadsIssued, heap, treeData', inflight')
    /\ lastFetch' = NoFetch
    /\ UNCHANGED workingProxyIndex

(***************************************************************************)
(* The continuations of fetchWithProxy and of its two callers when the     *)
(* response `resp` of the proxy request of the waiting call c arrives.     *)
(***************************************************************************)
\* fetchWithProxy that hands back a body other than the one it verified
ReturnsOtherBody(resp) == SitePage(UrlB)

\* what fetchWithProxy hands to its caller on success
ReturnedHtml(resp) == resp.html

\* the record of a fetchWithProxy call that ended (history)
FetchRecord(c, ok, html, answer) ==
    [kind |-> c.kind, node |-> c.node, url |-> c.url, start |-> c.start,
     tried |-> Append(c.tried, c.proxyIndex),
     ok |-> ok, proxyIndex |-> c.proxyIndex, html |-> html, answer |-> answer]

\* catch in fetchWithProxy with a proxy left: the next proxy is asked
ProxyFailed(c, resp) ==
    /\ ~ResponseIsHtml(resp)
    /\ NextProxy(c.proxyIndex) < NumProxies
    /\ inflight' = Add(Remove(inflight, c),
                       [c EXCEPT !.proxyIndex = NextProxy(c.proxyIndex),
                                 !.tried = Append(@, c.proxyIndex)])
    /\ toast' = NoToast
    /\ lastFetch' = NoFetch
    /\ UNCHANGED <<treeData, allDiscoveredUrls, expandedNodes,
                   workingProxyIndex, nodeIdCounter, heap, view, stats,
                   loadsIssued>>

\* startExploration that leaves the children of the root to a later load
RootNodeLazy(url, result, rootAddr) ==
    createNode(nodeIdCounter, url, result.title, FALSE, TRUE)

\* the root node of startExploration with its children, at address rootAddr
RootNode(url, result, rootAddr) ==
    [createNode(nodeIdCounter, url, result.title, FALSE, TRUE)
        EXCEPT !.children = Children(NewAddrs(rootAddr, Len(result.links))),
               !.totalFound = result.totalFound,
               !.wasTruncated = result.wasTruncated]

\* the try block of startExploration after the await, for the extraction
\* result of the html that fetchWithProxy returned
InstallTree(c, html, answer, result, rootAddr) ==
    /\ workingProxyIndex' = c.proxyIndex
    /\ inflight' = Remove(inflight, c)
    /\ heap' = Sweep(heap \o <<RootNode(c.url, result, rootAddr)>>
                          \o ChildNodes(result.links, nodeIdCounter + 1),
                     rootAddr, inflight')
    /\ nodeIdCounter' = nodeIdCounter + 1 + Len(result.links)
    /\ treeData' = rootAddr
    /\ allDiscoveredUrls' = allDiscoveredUrls \cup {c.url}
                               \cup {result.links[k].url : k \in DOMAIN result.links}
    /\ expandedNodes' = expandedNodes \cup {NodeId(nodeIdCounter + 1)}
    /\ view' = renderTree(treeData', heap', expandedNodes')
    /\ stats' = updateStats(stats, treeData', heap', expandedNodes')
    /\ toast' = <<"Found", Len(result.links), "links!">>
    /\ loadsIssued' = SweepCount(loadsIssued \o [k \in 1..(Len(result.links) + 1) |-> 0],
                                 heap', rootAddr, inflight')
    /\ lastFetch' = FetchRecord(c, TRUE, html, answer)

\* startExploration after its await, the fetch succeeded
ExploreLoaded(c, resp) ==
    /\ c.kind = "explore"
    /\ ResponseIsHtml(resp)
    /\ InstallTree(c, ReturnedHtml(resp), resp.html,
                   ExtractLinksOf(ReturnedHtml(resp), c.url), Len(heap) + 1)

\* the catch block of startExploration writes the error state into linkTree
\* and does not unhide it: where renderTree has hidden linkTree behind the
\* empty state meanwhile, the empty state stays
ErrorState(v) ==
    IF v.kind = "empty" THEN v ELSE [kind |-> "error", nodes |-> <<>>]

\* startExploration after its await, fetchWithProxy threw
ExploreFailed(c, resp) ==
    /\ c.kind = "explore"
    /\ ~ResponseIsHtml(resp)
    /\ NextProxy(c.proxyIndex) >= NumProxies
    /\ view' = ErrorState(view)
    /\ toast' = <<"Failed to load page">>
    /\ inflight' = Remove(inflight, c)
    /\ lastFetch' = FetchRecord(c, FALSE, NoBody, NoBody)
    /\ UNCHANGED <<treeData, allDiscoveredUrls, expandedNodes,
                   workingProxyIndex, nodeIdCounter, heap, stats, loadsIssued>>

\* the try and finally blocks of loadNodeChildren after the await, for the
\* node object at address a and the extraction result of the html that
\* fetchWithProxy returned
InstallChildren(c, a, html, answer, result) ==
    /\ workingProxyIndex' = c.proxyIndex
    /\ inflight' = Remove(inflight, c)
    /\ heap' = Sweep([heap EXCEPT ![a].children =
                                      Children(NewAddrs(Len(heap), Len(result.links))),
                                  ![a].totalFound = result.totalFound,
                                  ![a].wasTruncated = result.wasTruncated,
                                  ![a].isLoading = FALSE]
                        \o ChildNodes(result.links, nodeIdCounter),
                     treeData, inflight')
    /\ nodeIdCounter' = nodeIdCounter + Len(result.links)
    /\ allDiscoveredUrls' = allDiscoveredUrls
                               \cup {result.links[k].url : k \in DOMAIN result.links}
    /\ view' = renderTree(treeData, heap', expandedNodes)
    /\ stats' = updateStats(stats, treeData, heap', expandedNodes)
    /\ loadsIssued' = SweepCount(loadsIssued \o [k \in DOMAIN result.links |-> 0],
                                 heap', treeData, inflight')
    /\ toast' = NoToast
    /\ lastFetch' = FetchRecord(c, TRUE, html, answer)
    /\ UNCHANGED <<treeData, expandedNodes>>

\* loadNodeChildren after its await, the fetch succeeded
NodeLoaded(c, resp) ==
    /\ c.kind = "load"
    /\ ResponseIsHtml(resp)
    /\ InstallChildren(c, c.node, ReturnedHtml(resp), resp.html,
                       ExtractLinksOf(ReturnedHtml(resp), heap[c.node].url))

\* loadNodeChildren whose failure path clears the loading flag of every node
NodeFailedClearsAll(c, resp) ==
    /\ c.kind = "load"
    /\ ~ResponseIsHtml(resp)
    /\ NextProxy(c.proxyIndex) >= NumProxies
    /\ inflight' = Remove(inflight, c)
    /\ heap' = Sweep([b \in DOMAIN heap |->
                         IF b = c.node
                         THEN [heap[b] EXCEPT !.children = Children(<<>>),
                                              !.error = AllProxiesFailed,
                                              !.isLoading = FALSE]
                         ELSE [heap[b] EXCEPT !.isLoading = FALSE]],
                     treeData, inflight')
    /\ view' = renderTree(treeData, heap', expandedNodes)
    /\ stats' = updateStats(stats, treeData, heap', expandedNodes)
    /\ loadsIssued' = SweepCount(loadsIssued, heap', treeData, inflight')
    /\ toast' = NoToast
    /\ lastFetch' = FetchRecord(c, FALSE, NoBody, NoBody)
    /\ UNCHANGED <<treeData, allDiscoveredUrls, expandedNodes,
                   workingProxyIndex, nodeIdCounter>>

\* loadNodeChildren whose catch block records the error only
NodeFailedLeavesUnloaded(c, resp) ==
    /\ c.kind = "load"
    /\ ~ResponseIsHtml(resp)
    /\ NextProxy(c.proxyIndex) >= NumProxies
    /\ inflight' = Remove(inflight, c)
    /\ heap' = Sweep([heap EXCEPT ![c.node].error = AllProxiesFailed,
                                  ![c.node].isLoading = FALSE],
                     treeData, inflight')
    /\ view' = renderTree(treeData, heap', expandedNodes)
    /\ stats' = updateStats(stats, treeData, heap', expandedNodes)
    /\ loadsIssued' = SweepCount(loadsIssued, heap', treeData, inflight')
    /\ toast' = NoToast
    /\ lastFetch' = FetchRecord(c, FALSE, NoBody, NoBody)
    /\ UNCHANGED <<treeData, allDiscoveredUrls, expandedNodes,
                   workingProxyIndex, nodeIdCounter>>

\* loadNodeChildren without its finally block on the failure path
NodeFailedKeepsLoading(c, resp) ==
    /\ c.kind = "load"
    /\ ~ResponseIsHtml(resp)
    /\ NextProxy(c.proxyIndex) >= NumProxies
    /\ inflight' = Remove(inflight, c)
    /\ heap' = Sweep([heap EXCEPT ![c.node].children = Children(<<>>),
                                  ![c.node].error = AllProxiesFailed],
                     treeData, inflight')
    /\ loadsIssued' = SweepCount(loadsIssued, heap', treeData, inflight')
    /\ toast' = NoToast
    /\ lastFetch' = FetchRecord(c, FALSE, NoBody, NoBody)
    /\ UNCHANGED <<treeData, allDiscoveredUrls, expandedNodes,
                   workingProxyIndex, nodeIdCounter, view, stats>>

\* loadNodeChildren after its await, fetchWithProxy threw
NodeFailed(c, resp) ==
    LET a == c.node
    IN  /\ c.kind = "load"
        /\ ~ResponseIsHtml(resp)
        /\ NextProxy(c.proxyIndex) >= NumProxies
        /\ inflight' = Remove(inflight, c)
        /\ heap' = Sweep([heap EXCEPT ![a].children = Children(<<>>),
                                      ![a].error = AllProxiesFailed,
                                      ![a].isLoading = FALSE],
                         treeData, inflight')
        /\ view' = renderTree(treeData, heap', expandedNodes)
        /\ stats' = updateStats(stats, treeData, heap', expandedNodes)
        /\ loadsIssued' = SweepCount(loadsIssued, heap', treeData, inflight')
        /\ toast' = NoToast
        /\ lastFetch' = FetchRecord(c, FALSE, NoBody, NoBody)
        /\ UNCHANGED <<treeData, allDiscoveredUrls, expandedNodes,
                       workingProxyIndex, nodeIdCounter>>

Next ==
    \/ \E url \in SeedInputs : StartExploration(url) /\ UNCHANGED <<args, returned, otherPages>>
    \/ \E k \in 1..MaxNodes : HandleToggle(NodeId(k)) /\ UNCHANGED <<args, returned, otherPages>>
    \/ CollapseAll /\ UNCHANGED <<args, returned, otherPages>>
    \/ ClearAll /\ UNCHANGED <<args, returned, otherPages>>
    \/ \E c \in BagToSet(inflight) : \E resp \in Responses(c.url) : ProxyFailed(c, resp) /\ UNCHANGED <<args, returned, otherPages>>
    \/ \E c \in BagToSet(inflight) : \E resp \in Responses(c.url) : ExploreLoaded(c, resp) /\ UNCHANGED <<args, returned, otherPages>>
    \/ \E c \in BagToSet(inflight) : \E resp \in Responses(c.url) : ExploreFailed(c, resp) /\ UNCHANGED <<args, returned, otherPages>>
    \/ \E c \in BagToSet(inflight) : \E resp \in Responses(c.url) : NodeLoaded(c, resp) /\ UNCHANGED <<args, returned, otherPages>>
    \/ \E c \in BagToSet(inflight) : \E resp \in Responses(c.url) : NodeFailed(c, resp) /\ UNCHANGED <<args, returned, otherPages>>

Spec == Init /\ [][Next]_vars

\* the proxy request of the loadNodeChildren call for the node object at
\* address a resolves or rejects
LoadResponds(a) ==
    \E c \in BagToSet(inflight) : \E resp \in Responses(c.url) :
        /\ c.kind = "load"
        /\ c.node = a
        /\ ProxyFailed(c, resp) \/ NodeLoaded(c, resp) \/ NodeFailed(c, resp)
        /\ UNCHANGED <<args, returned, otherPages>>

\* the program where every proxy request of a node load eventually resolves
\* or rejects
FairSpec ==
    /\ Init
    /\ [][Next]_vars
    /\ \A a \in 1..MaxNodes : WF_vars(LoadResponds(a))

(***************************************************************************)
(* normalizeUrl and extractLinks called on their own: the arguments are    *)
(* drawn when the run starts, one step makes the call.                     *)
(***************************************************************************)
\* the most anchors of a page whose anchors are drawn freely
MaxPageLen == 3

\* the most distinct links of a generated page
MaxAnchors == 52

\* the hrefs normalizeUrl is called with
Hrefs ==
    { <<"h","t","t","p",":","/","/","a","/","x">>,
      <<"H","T","T","P",":","/","/","A","/","x">>,
      <<"h","t","t","p",":","/","/","b">>,
      <<"h","t","t","p","s",":","/","/","b","/","y","#","f">>,
      <<"h","t","t","p",":","/","/","a","/","x","?","q","#","f">>,
      <<"h","t","t","p",":","/","/","a","/","d","/",".",".","/","y">>,
      <<"f","t","p",":","/","/","a","/">>,
      <<"m","a","i","l","t","o",":","m">>,
      <<"j","a","v","a","s","c","r","i","p","t",":","v">>,
      <<"a"," ","b">>,
      <<>>,
      <<"/","x">>,
      <<"/","x","#","f">>,
      <<"x">>,
      <<"x","#","f">>,
      <<".",".","/","y">>,
      <<"/","/","b">>,
      <<"/","/","b","/","p">>,
      <<"/","/","/","x">>,
      <<"#","t","o","p">>,
      <<"?","q">>,
      <<"h","t","t","p",":","/","a">>,
      <<" ","h","t","t","p",":","/","/","a","/","x">>,
      <<"h","t","t","p",":","/","/","A"," ","B","/">> }

\* the base URLs normalizeUrl is called with: none, three valid ones and one
\* that new URL rejects
BaseUrls ==
    { NullStr,
      Str(<<"h","t","t","p",":","/","/","a","/","d","/","p">>),
      Str(<<"h","t","t","p",":","/","/","a">>),
      Str(<<"h","t","t","p","s",":","/","/","e","x","a","m","p","l","e",".","c","o","m","/","d","o","c","s","/">>),
      Str(<<"n","o","p","e">>) }

NormalizeArgs ==
    {[fn |-> "normalizeUrl", url |-> h, baseUrl |-> b] : h \in Hrefs, b \in BaseUrls}

\* a response body with these anchors
Page(anchors) ==
    [hasLt |-> TRUE, length |-> 100, title |-> <<>>, anchors |-> anchors]

\* the anchors of the pages served at UrlAX: references to the page itself
\* (relative, absolute, with a fragment), two forms of one other page,
\* excluded hrefs and an external link
PageAnchors ==
    { Anchor(<<"/","x">>, <<"r","e","l">>),
      Anchor(UrlAX, <<"a","b","s">>),
      Anchor(<<"/","x","#","f">>, <<"f","r","a","g">>),
      Anchor(<<"/","y">>, <<" ","Y"," ">>),
      Anchor(<<"h","t","t","p",":","/","/","a","/","y","#","g">>, <<>>),
      Anchor(<<"m","a","i","l","t","o",":","m">>, <<"m">>),
      Anchor(<<"/","/","b","/">>, <<"c","d","n">>),
      Anchor(<<"#","t","o","p">>, <<"t","o","p">>),
      Anchor(<<"h","t","t","p",":","/","/","b","/","z",".","P","D","F">>, <<"p","d","f">>),
      Anchor(<<"H","T","T","P",":","/","/","B","/">>, <<"e","x","t">>) }

ShortPages == UNION {[1..n -> PageAnchors] : n \in 0..MaxPageLen}

\* the href "/pNN" of the n-th link of a generated page
NumHref(n) == <<"/", "p", DigitChars[(n \div 10) + 1], DigitChars[(n % 10) + 1]>>

\* a generated page with n distinct links, each followed by a second anchor
\* for the first link
LongAnchors(n) ==
    [i \in 1..(2 * n) |->
        IF i % 2 = 1 THEN Anchor(NumHref((i + 1) \div 2), <<>>)
        ELSE Anchor(NumHref(1), <<"d","u","p">>)]

\* the URL of a child node whose href had a fragment
UrlAXFrag == <<"h","t","t","p",":","/","/","a","/","x","#","f">>

\* the seed and the anchors of the documented scenario
DocsUrl == <<"h","t","t","p","s",":","/","/","e","x","a","m","p","l","e",".","c","o","m","/","d","o","c","s","/">>

DocsA == <<"h","t","t","p","s",":","/","/","e","x","a","m","p","l","e",".","c","o","m","/","d","o","c","s","/","a">>

DocsAnchors ==
    << Anchor(<<"/","d","o","c","s","/","a">>, <<"a">>),
       Anchor(<<"#","t","o","p">>, <<"t","o","p">>),
       Anchor(DocsA, <<"d","u","p">>),
       Anchor(<<"h","t","t","p","s",":","/","/","o","t","h","e","r",".","c","o","m","/","x",".","p","d","f">>, <<"p","d","f">>) >>

\* the longest anchor text and the longest path segment of a page
MaxTextLen == 201

\* the character ch, n times
Repeat(ch, n) == [i \in 1..n |-> ch]

\* the anchors of the pages with long texts and long hrefs: a short or a long
\* path segment, with no text, white space only, a text of just under, just
\* at and just over the limit of the cut, and a text with white space at
\* the cut
LongTextAnchors ==
    {Anchor(<<"/">> \o Repeat("s", n), t) :
        n \in {0, 1, MaxTextLen},
        t \in {<<>>, <<" ", "\n">>,
               Repeat("t", MaxTextLen - 2), Repeat("t", MaxTextLen - 1),
               Repeat("t", MaxTextLen),
               Repeat("t", MaxTextLen - 2) \o <<" ", " ", "u">>}}

ExtractArgs ==
    {[fn |-> "extractLinks", html |-> Page(p), sourceUrl |-> UrlAX] : p \in ShortPages}
    \cup {[fn |-> "extractLinks", html |-> Page(LongAnchors(n)), sourceUrl |-> UrlA] :
             n \in 0..MaxAnchors}
    \cup {[fn |-> "extractLinks", html |-> Page(<<a>>), sourceUrl |-> UrlAXFrag] :
             a \in PageAnchors}
    \cup {[fn |-> "extractLinks", html |-> Page(DocsAnchors), sourceUrl |-> DocsUrl]}
    \cup {[fn |-> "extractLinks", html |-> Page(<<a>>), sourceUrl |-> UrlA] :
             a \in LongTextAnchors}

Returned(value) == [called |-> TRUE, value |-> value]

UtilInit ==
    /\ InitState
    /\ PagesClosed
    /\ args \in NormalizeArgs \cup ExtractArgs
    /\ returned = NotCalled

\* normalizeUrl(url, baseUrl)
CallNormalizeUrl ==
    /\ args.fn = "normalizeUrl"
    /\ ~returned.called
    /\ returned' = Returned(normalizeUrl(args.url, args.baseUrl))
    /\ UNCHANGED <<treeData, allDiscoveredUrls, expandedNodes, workingProxyIndex,
                   nodeIdCounter, heap, inflight, view, stats, toast, loadsIssued,
                   lastFetch, args, otherPages>>

\* extractLinks(html, sourceUrl)
CallExtractLinks ==
    /\ args.fn = "extractLinks"
    /\ ~returned.called
    /\ returned' = Returned(extractLinks(args.html, args.sourceUrl))
    /\ UNCHANGED <<treeData, allDiscoveredUrls, expandedNodes, workingProxyIndex,
                   nodeIdCounter, heap, inflight, view, stats, toast, loadsIssued,
                   lastFetch, args, otherPages>>

UtilNext == CallNormalizeUrl \/ CallExtractLinks

UtilSpec == UtilInit /\ [][UtilNext]_vars

(***************************************************************************)
(* The explorer on a site with long pages: every URL of the site serves    *)
(* the generated page drawn when the run starts, the proxies answer at     *)
(* once.  The run starts when startExploration(UrlA) waits for its         *)
(* response; the first link of the root can then be toggled and loaded.    *)
(***************************************************************************)
ServedArgs == {[fn |-> "serve", html |-> Page(LongAnchors(n))] : n \in 0..MaxAnchors}

PageInit ==
    /\ treeData = 0
    /\ allDiscoveredUrls = {}
    /\ expandedNodes = {}
    /\ workingProxyIndex = 0
    /\ nodeIdCounter = 0
    /\ heap = <<>>
    /\ inflight = SetToBag({Call("explore", 0, UrlA, DefaultProxyIndex)})
    /\ view = [kind |-> "loading", nodes |-> <<>>]
    /\ stats = HiddenStats
    /\ toast = NoToast
    /\ loadsIssued = <<>>
    /\ lastFetch = NoFetch
    /\ PagesClosed
    /\ args \in ServedArgs
    /\ returned = NotCalled

\* startExploration after its await: the first proxy returned the page
PageExploreLoaded ==
    \E c \in BagToSet(inflight) :
        /\ c.kind = "explore"
        /\ InstallTree(c, args.html, args.html, extractLinks(args.html, c.url),
                       Len(heap) + 1)
        /\ UNCHANGED <<args, returned, otherPages>>

\* handleToggle on the first link of the root while it is collapsed and
\* unloaded: loadNodeChildren up to its await
PageToggleFirst(a) ==
    /\ a = heap[treeData].children.items[1]
    /\ heap[a].id \notin expandedNodes
    /\ CanLoad(heap[a])
    /\ expandedNodes' = expandedNodes \cup {heap[a].id}
    /\ heap' = [heap EXCEPT ![a].isLoading = TRUE, ![a].error = NoError]
    /\ view' = renderTree(treeData, heap', expandedNodes')
    /\ inflight' = Add(inflight, Call("load", a, heap[a].url, workingProxyIndex))
    /\ loadsIssued' = [loadsIssued EXCEPT ![a] = @ + 1]
    /\ lastFetch' = NoFetch
    /\ toast' = NoToast
    /\ UNCHANGED <<treeData, allDiscoveredUrls, workingProxyIndex, nodeIdCounter,
                   stats, args, returned, otherPages>>

\* loadNodeChildren after its await: the proxy returned the page
PageNodeLoaded ==
    \E c \in BagToSet(inflight) :
        /\ c.kind = "load"
        /\ InstallChildren(c, c.node, args.html, args.html,
                           extractLinks(args.html, c.url))
        /\ UNCHANGED <<args, returned, otherPages>>

PageNext ==
    \/ PageExploreLoaded
    \/ \E a \in DOMAIN heap :
          treeData # 0 /\ heap[treeData].children.items # <<>> /\ PageToggleFirst(a)
    \/ PageNodeLoaded

PageSpec == PageInit /\ [][PageNext]_vars

(***************************************************************************)
(* The theme (src/app.js).  Every page of the site runs the script; the    *)
(* documents that are open together share localStorage and the colour      *)
(* scheme of the system.  The pages have the two icons of the toggle.      *)
(***************************************************************************)
\* e.matches ? 'dark' : 'light'
SystemTheme(dark) == IF dark THEN Dark ELSE Light

\* getStoredTheme: the stored item, or the system preference
getStoredTheme ==
    IF ~localStorage.isNull /\ localStorage.str # <<>> THEN localStorage.str
    ELSE SystemTheme(prefersDark)

\* applyTheme(theme) in document d: the attribute, the stored item, and the
\* icon updateThemeToggleIcons makes visible
applyTheme(d, theme, attrs, icons, stored) ==
    [dataTheme    |-> [attrs EXCEPT ![d] = Str(theme)],
     themeIcon    |-> [icons EXCEPT ![d] = IF theme = Dark THEN "moon" ELSE "sun"],
     localStorage |-> Str(theme)]

\* the three variables applyTheme writes become those of `applied`
Applied(applied) ==
    /\ dataTheme' = applied.dataTheme
    /\ themeIcon' = applied.themeIcon
    /\ localStorage' = applied.localStorage

\* init(): initTheme, then onDOMReady at once or at DOMContentLoaded
\* (loading = document.readyState === 'loading')
init(d, loading) ==
    /\ readyState[d] = "closed"
    /\ Applied(applyTheme(d, getStoredTheme, dataTheme, themeIcon, localStorage))
    /\ readyState' = [readyState EXCEPT ![d] = IF loading THEN "loading" ELSE "ready"]
    /\ UNCHANGED <<themeReady, prefersDark, userChose>>

\* the callback of requestAnimationFrame in initTheme
EnableTransitions(d) ==
    /\ readyState[d] # "closed"
    /\ ~themeReady[d]
    /\ themeReady' = [themeReady EXCEPT ![d] = TRUE]
    /\ UNCHANGED <<readyState, dataTheme, themeIcon, localStorage, prefersDark,
                   userChose>>

\* onDOMReady at DOMContentLoaded: the listeners are added
onDOMReady(d) ==
    /\ readyState[d] = "loading"
    /\ readyState' = [readyState EXCEPT ![d] = "ready"]
    /\ UNCHANGED <<dataTheme, themeReady, themeIcon, localStorage, prefersDark,
                   userChose>>

\* toggleTheme: a click on the theme toggle of document d
toggleTheme(d) ==
    /\ readyState[d] = "ready"
    /\ Applied(applyTheme(d,
                          IF ~dataTheme[d].isNull /\ dataTheme[d].str = Dark
                          THEN Light ELSE Dark,
                          dataTheme, themeIcon, localStorage))
    /\ userChose' = TRUE
    /\ UNCHANGED <<readyState, themeReady, prefersDark>>

\* the listener of the change event in document d, on what the listeners
\* that ran before it left
OnSystemChange(d, dark, before) ==
    IF before.localStorage.isNull \/ before.localStorage.str = <<>>
    THEN applyTheme(d, SystemTheme(dark), before.dataTheme, before.themeIcon,
                    before.localStorage)
    ELSE before

\* the listeners of the documents of `order`, one after the other
RECURSIVE DispatchChange(_, _, _)
DispatchChange(order, dark, before) ==
    IF order = <<>> THEN before
    ELSE DispatchChange(Tail(order), dark, OnSystemChange(order[1], dark, before))

\* the orders in which the documents of a set can be served
Orders(set) ==
    {o \in [1..Cardinality(set) -> set] :
        \A i, j \in 1..Cardinality(set) : o[i] = o[j] => i = j}

\* the system colour scheme changes: the change event reaches every document
\* whose listener is added
SystemChanged ==
    /\ prefersDark' = ~prefersDark
    /\ \E order \in Orders({d \in Docs : readyState[d] = "ready"}) :
          Applied(DispatchChange(order, ~prefersDark,
                                 [dataTheme |-> dataTheme, themeIcon |-> themeIcon,
                                  localStorage |-> localStorage]))
    /\ UNCHANGED <<readyState, themeReady, userChose>>

\* the user leaves the page of document d
CloseDocument(d) ==
    /\ readyState[d] # "closed"
    /\ readyState' = [readyState EXCEPT ![d] = "closed"]
    /\ dataTheme' = [dataTheme EXCEPT ![d] = NullStr]
    /\ themeReady' = [themeReady EXCEPT ![d] = FALSE]
    /\ themeIcon' = [themeIcon EXCEPT ![d] = "none"]
    /\ UNCHANGED <<localStorage, prefersDark, userChose>>

ThemeInit ==
    /\ InitState
    /\ args = NoArgs
    /\ returned = NotCalled
    /\ DocsClosed
    /\ prefersDark \in BOOLEAN
    /\ ViewerEmpty
    /\ ConverterEmpty

ThemeNext ==
    \/ \E d \in Docs : \E loading \in BOOLEAN : init(d, loading) /\ UNCHANGED <<explorer, jsonlPage, gifPage>>
    \/ \E d \in Docs : EnableTransitions(d) /\ UNCHANGED <<explorer, jsonlPage, gifPage>>
    \/ \E d \in Docs : onDOMReady(d) /\ UNCHANGED <<explorer, jsonlPage, gifPage>>
    \/ \E d \in Docs : toggleTheme(d) /\ UNCHANGED <<explorer, jsonlPage, gifPage>>
    \/ SystemChanged /\ UNCHANGED <<explorer, jsonlPage, gifPage>>
    \/ \E d \in Docs : CloseDocument(d) /\ UNCHANGED <<explorer, jsonlPage, gifPage>>

ThemeSpec == ThemeInit /\ [][ThemeNext]_vars

(***************************************************************************)
(* The JSONL viewer (src/tools/jsonl-viewer/app.js).  A file is the        *)
(* sequence of its lines, content.split('\n'); a line is a JSON number of  *)
(* one digit, possibly with white space around it, or text that JSON.parse *)
(* rejects, or blank.  The toasts and the name of the file are left out.   *)
(***************************************************************************)
entriesPerPage == 50

\* the most lines of a file
MaxLines == 101

\* the most files that are read at a time
MaxReads == 2

\* the file of n lines that repeats these lines
FileOf(n, lines) == [i \in 1..n |-> lines[((i - 1) % Len(lines)) + 1]]

\* the files the user drops: empty, one full page, three pages; all lines
\* the same valid entry, or two valid entries, an invalid line and a blank
\* line in turn
Files ==
    {FileOf(n, lines) :
        n \in {0, entriesPerPage, MaxLines},
        lines \in { << <<"1">> >>,
                    << <<"1">>, <<" ", "2">>, <<"{">>, <<" ">> >> }}

\* what the user types into the search field
Queries == {<<>>, <<"1">>, <<" ", "2">>, <<"9">>}

\* JSON.parse(trimmed) does not throw: the text is a number
IsJson(trimmed) == trimmed # <<>> /\ Range(trimmed) \subseteq Range(DigitChars)

\* lines.forEach of parseJsonl: the valid and the invalid entries
ParsedLines(lines) ==
    LET entries == [i \in DOMAIN lines |->
                       [lineNumber |-> i,
                        raw        |-> Trim(lines[i]),
                        valid      |-> IsJson(Trim(lines[i]))]]
        Valid(e) == e.raw # <<>> /\ e.valid
        Invalid(e) == e.raw # <<>> /\ ~e.valid
    IN  IF lines = <<>> THEN [valid |-> <<>>, invalid |-> <<>>]
        ELSE [valid   |-> SelectSeq(entries, Valid),
              invalid |-> SelectSeq(entries, Invalid)]

\* str.includes(query)
Includes(str, query) ==
    \E i \in 1..(Len(str) + 1) :
        /\ i + Len(query) - 1 <= Len(str)
        /\ SubSeq(str, i, i + Len(query) - 1) = query

\* validEntries.filter of handleSearch; JSON.stringify of a number of one
\* digit is the digit
FilterEntries(entries, query) ==
    LET Matches(e) == Includes(ToLower(e.raw), query)
    IN  IF entries = <<>> THEN <<>> ELSE SelectSeq(entries, Matches)

\* Math.ceil(count / entriesPerPage)
TotalPages(count) == (count + entriesPerPage - 1) \div entriesPerPage

\* renderEntries: the slice [start, end) of filteredEntries
renderEntries(page, count) ==
    <<page * entriesPerPage,
      IF page * entriesPerPage + entriesPerPage < count
      THEN page * entriesPerPage + entriesPerPage ELSE count>>

\* updatePagination: the pagination bar
updatePagination(page, count, bar) ==
    IF TotalPages(count) <= 1 THEN [bar EXCEPT !.visible = FALSE]
    ELSE [visible      |-> TRUE,
          page         |-> page + 1,
          total        |-> TotalPages(count),
          prevDisabled |-> page = 0,
          nextDisabled |-> page >= TotalPages(count) - 1]

\* the page is shown: currentPage, renderEntries, updatePagination
ShowPage(page, count) ==
    /\ currentPage' = page
    /\ rendered' = renderEntries(page, count)
    /\ pagination' = updatePagination(page, count, pagination)

\* processFile: a FileReader starts to read the file
processFile(file) ==
    /\ Cardinality(reading) < MaxReads
    /\ file \notin reading
    /\ reading' = reading \cup {file}
    /\ lastCall' = [fn |-> "processFile", page |-> 0]
    /\ UNCHANGED <<validEntries, invalidEntries, filteredEntries, currentPage,
                   searchInput, searchTimer, searchBar, pagination, rendered>>

\* reader.onload: parseJsonl(content)
parseJsonl(file) ==
    /\ file \in reading
    /\ reading' = reading \ {file}
    /\ validEntries' = ParsedLines(file).valid
    /\ invalidEntries' = ParsedLines(file).invalid
    /\ filteredEntries' = validEntries'
    /\ ShowPage(0, Len(filteredEntries'))
    /\ searchBar' = (searchBar \/ Len(validEntries') > 0)
    /\ lastCall' = [fn |-> "parseJsonl", page |-> 0]
    /\ UNCHANGED <<searchInput, searchTimer>>

\* reader.onerror
ReaderFailed(file) ==
    /\ file \in reading
    /\ reading' = reading \ {file}
    /\ lastCall' = [fn |-> "onerror", page |-> 0]
    /\ UNCHANGED <<validEntries, invalidEntries, filteredEntries, currentPage,
                   searchInput, searchTimer, searchBar, pagination, rendered>>

\* goToPage that shows any page it is asked for
goToPageUnguarded(page) ==
    /\ ShowPage(page, Len(filteredEntries))
    /\ lastCall' = [fn |-> "goToPage", page |-> page]
    /\ UNCHANGED <<validEntries, invalidEntries, filteredEntries, searchInput,
                   searchTimer, reading, searchBar>>

\* goToPage(page)
goToPage(page) ==
    /\ IF page < 0 \/ page >= TotalPages(Len(filteredEntries))
       THEN UNCHANGED <<currentPage, rendered, pagination>>
       ELSE ShowPage(page, Len(filteredEntries))
    /\ lastCall' = [fn |-> "goToPage", page |-> page]
    /\ UNCHANGED <<validEntries, invalidEntries, filteredEntries, searchInput,
                   searchTimer, reading, searchBar>>

\* handleSearch with searchInput.value = value
handleSearch(value) ==
    /\ filteredEntries' = IF ToLower(Trim(value)) = <<>> THEN validEntries
                          ELSE FilterEntries(validEntries, ToLower(Trim(value)))
    /\ ShowPage(0, Len(filteredEntries'))
    /\ lastCall' = [fn |-> "handleSearch", page |-> 0]
    /\ UNCHANGED <<validEntries, invalidEntries, reading, searchBar>>

\* the input event of the search field: the debounce timer is armed again
TypeQuery(value) ==
    /\ searchBar
    /\ value # searchInput
    /\ searchInput' = value
    /\ searchTimer' = TRUE
    /\ lastCall' = [fn |-> "input", page |-> 0]
    /\ UNCHANGED <<validEntries, invalidEntries, filteredEntries, currentPage,
                   reading, searchBar, pagination, rendered>>

\* the debounce timer fires: handleSearch
SearchTimerFires ==
    /\ searchTimer
    /\ searchTimer' = FALSE
    /\ handleSearch(searchInput)
    /\ UNCHANGED searchInput

\* the click on searchClear
SearchClear ==
    /\ searchBar
    /\ searchInput' = <<>>
    /\ handleSearch(<<>>)
    /\ UNCHANGED searchTimer

\* clearData
clearData ==
    /\ validEntries' = <<>>
    /\ invalidEntries' = <<>>
    /\ filteredEntries' = <<>>
    /\ currentPage' = 0
    /\ rendered' = <<0, 0>>
    /\ pagination' = [pagination EXCEPT !.visible = FALSE]
    /\ searchBar' = FALSE
    /\ searchInput' = <<>>
    /\ lastCall' = [fn |-> "clearData", page |-> 0]
    /\ UNCHANGED <<searchTimer, reading>>

JsonlInit ==
    /\ InitState
    /\ args = NoArgs
    /\ returned = NotCalled
    /\ PagesClosed

JsonlNext ==
    \/ \E file \in Files : processFile(file) /\ UNCHANGED <<explorer, themePage, gifPage>>
    \/ \E file \in Files : parseJsonl(file) /\ UNCHANGED <<explorer, themePage, gifPage>>
    \/ \E file \in Files : ReaderFailed(file) /\ UNCHANGED <<explorer, themePage, gifPage>>
    \/ goToPage(currentPage - 1) /\ UNCHANGED <<explorer, themePage, gifPage>>
    \/ goToPage(currentPage + 1) /\ UNCHANGED <<explorer, themePage, gifPage>>
    \/ \E value \in Queries : TypeQuery(value) /\ UNCHANGED <<explorer, themePage, gifPage>>
    \/ SearchTimerFires /\ UNCHANGED <<explorer, themePage, gifPage>>
    \/ SearchClear /\ UNCHANGED <<explorer, themePage, gifPage>>
    \/ clearData /\ UNCHANGED <<explorer, themePage, gifPage>>

JsonlSpec == JsonlInit /\ [][JsonlNext]_vars

(***************************************************************************)
(* The GIF converter (src/tools/mov-to-gif/app.js, 52-519).  A call of     *)
(* startConversion extracts the frames of the video one seek at a time,    *)
(* then hands them to an encoder that renders in workers and fires         *)
(* 'finished'.  A seek completes while the video it was made on is still   *)
(* the source of previewVideo.  resetToUpload runs at a click on           *)
(* changeVideoBtn or newVideoBtn and at the error event of previewVideo.   *)
(* The toasts, the progress bar and the settings are left out.             *)
(***************************************************************************)
\* the video files the user has
MaxVideos == 2

\* Math.ceil(duration * fps), the frames of a conversion
MaxFrames == 2

\* the most conversions that are started
MaxConversions == 2

\* processFile(file) of the converter, for a file of a valid type
processVideoFile(file) ==
    /\ panels.dropZone
    /\ currentFile' = file
    /\ previewSrc' = file
    /\ UNCHANGED <<isCancelled, gifEncoder, generatedGifBlob, conversions, started,
                   panels, downloaded>>

\* previewVideo.onloadedmetadata
VideoLoaded ==
    /\ previewSrc # 0
    /\ panels.dropZone
    /\ panels' = [panels EXCEPT !.dropZone = FALSE, !.settingsPanel = TRUE,
                                !.outputSection = FALSE]
    /\ UNCHANGED <<currentFile, previewSrc, isCancelled, gifEncoder,
                   generatedGifBlob, conversions, started, downloaded>>

\* resetToUpload; the conversions that run lose their video (history)
resetToUpload ==
    /\ previewSrc # 0
    /\ currentFile' = 0
    /\ generatedGifBlob' = NoBlob
    /\ previewSrc' = 0
    /\ panels' = UploadPanels
    /\ conversions' = {[c EXCEPT !.replaced = TRUE] : c \in conversions}
    /\ UNCHANGED <<isCancelled, gifEncoder, started, downloaded>>

\* startConversion up to its first await
startConversion ==
    /\ panels.settingsPanel
    /\ started < MaxConversions
    /\ currentFile # 0 /\ previewSrc # 0
    /\ isCancelled' = FALSE
    /\ panels' = [panels EXCEPT !.settingsPanel = FALSE, !.progressSection = TRUE,
                                !.outputSection = FALSE]
    /\ started' = started + 1
    /\ conversions' = conversions \cup
           {[id |-> started + 1, file |-> currentFile, phase |-> "extracting",
             left |-> MaxFrames, cancelled |-> FALSE, replaced |-> FALSE]}
    /\ UNCHANGED <<currentFile, previewSrc, gifEncoder, generatedGifBlob, downloaded>>

\* resetAfterCancel
resetAfterCancel ==
    /\ panels' = [panels EXCEPT !.progressSection = FALSE, !.settingsPanel = TRUE]
    /\ gifEncoder' = 0

\* startConversion after an await of captureFrame: the frame is kept; after
\* the last frame, or when cancelled, the loop ends: resetAfterCancel, or
\* the encoder is created and renders
FrameCaptured(c) ==
    /\ c.phase = "extracting"
    /\ previewSrc = c.file
    /\ IF c.left > 1 /\ ~isCancelled
       THEN /\ conversions' = (conversions \ {c}) \cup {[c EXCEPT !.left = @ - 1]}
            /\ UNCHANGED <<panels, gifEncoder>>
       ELSE IF isCancelled
       THEN /\ conversions' = conversions \ {c}
            /\ resetAfterCancel
       ELSE /\ conversions' = (conversions \ {c}) \cup
                                  {[c EXCEPT !.left = 0, !.phase = "rendering"]}
            /\ gifEncoder' = c.id
            /\ UNCHANGED panels
    /\ UNCHANGED <<currentFile, previewSrc, isCancelled, generatedGifBlob, started,
                   downloaded>>

\* gifEncoder.on('finished'): the blob is published with showResult
EncoderFinished(c) ==
    /\ c.phase = "rendering"
    /\ conversions' = conversions \ {c}
    /\ IF isCancelled
       THEN resetAfterCancel /\ UNCHANGED generatedGifBlob
       ELSE /\ generatedGifBlob' = [conversion |-> c.id, file |-> c.file,
                                    cancelled |-> c.cancelled, replaced |-> c.replaced]
            /\ panels' = [panels EXCEPT !.progressSection = FALSE, !.outputSection = TRUE]
            /\ UNCHANGED gifEncoder
    /\ UNCHANGED <<currentFile, previewSrc, isCancelled, started, downloaded>>

\* cancelConversion: the encoder, if any, is aborted and never finishes
cancelConversion ==
    /\ panels.progressSection
    /\ isCancelled' = TRUE
    /\ conversions' =
           {[c EXCEPT !.cancelled = TRUE] :
               c \in {d \in conversions : ~(d.phase = "rendering" /\ d.id = gifEncoder)}}
    /\ UNCHANGED <<currentFile, previewSrc, gifEncoder, generatedGifBlob, started,
                   panels, downloaded>>

\* downloadGif; currentFile.name throws when currentFile is null
downloadGif ==
    /\ panels.outputSection
    /\ downloaded' = IF generatedGifBlob = NoBlob THEN <<"No GIF to download">>
                     ELSE IF currentFile = 0 THEN <<"TypeError">>
                     ELSE <<"GIF downloaded!", generatedGifBlob.file, currentFile>>
    /\ UNCHANGED <<currentFile, previewSrc, isCancelled, gifEncoder,
                   generatedGifBlob, conversions, started, panels>>

\* reconvert
reconvert ==
    /\ panels.outputSection
    /\ panels' = [panels EXCEPT !.outputSection = FALSE, !.settingsPanel = TRUE]
    /\ UNCHANGED <<currentFile, previewSrc, isCancelled, gifEncoder,
                   generatedGifBlob, conversions, started, downloaded>>

GifInit ==
    /\ InitState
    /\ args = NoArgs
    /\ returned = NotCalled
    /\ PagesClosed

GifNext ==
    \/ \E file \in 1..MaxVideos : processVideoFile(file) /\ UNCHANGED <<explorer, themePage, jsonlPage>>
    \/ VideoLoaded /\ UNCHANGED <<explorer, themePage, jsonlPage>>
    \/ resetToUpload /\ UNCHANGED <<explorer, themePage, jsonlPage>>
    \/ startConversion /\ UNCHANGED <<explorer, themePage, jsonlPage>>
    \/ \E c \in conversions : FrameCaptured(c) /\ UNCHANGED <<explorer, themePage, jsonlPage>>
    \/ \E c \in conversions : EncoderFinished(c) /\ UNCHANGED <<explorer, themePage, jsonlPage>>
    \/ cancelConversion /\ UNCHANGED <<explorer, themePage, jsonlPage>>
    \/ downloadGif /\ UNCHANGED <<explorer, themePage, jsonlPage>>
    \/ reconvert /\ UNCHANGED <<explorer, themePage, jsonlPage>>

GifSpec == GifInit /\ [][GifNext]_vars

(***************************************************************************)
(* Properties of the link explorer.                                        *)
(***************************************************************************)
\* the calls of loadNodeChildren for the node object at address a that wait
\* for a response
LoadsInFlight(a) ==
    BagCardinality(BagOfAll(LAMBDA c : c.node,
        [c \in {d \in BagToSet(inflight) : d.kind = "load" /\ d.node = a}
            |-> CopiesIn(c, inflight)]))

\* the node objects that have not been collected
Objects == {a \in DOMAIN heap : heap[a] # Freed}

\* C1: for every node at most one fetch for its children is ever issued and
\* at most one is in flight, the node is loading exactly while that fetch is
\* in flight, and a call of loadNodeChildren for a node that is loading or
\* loaded issues no fetch and changes no node field
C1_OneFetchPerNode ==
    /\ [](\A a \in Objects :
            /\ loadsIssued[a] <= 1
            /\ LoadsInFlight(a) = (IF heap[a].isLoading THEN 1 ELSE 0)
            /\ heap[a].isLoading => loadsIssued[a] = 1 /\ heap[a].children.isNull)
    /\ [][lastFetch'.kind = "skip" =>
            /\ heap[lastFetch'.node].isLoading
                   \/ ~heap[lastFetch'.node].children.isNull
            /\ heap' = heap
            /\ inflight' = inflight
            /\ loadsIssued' = loadsIssued]_vars

\* a toggle reached loadNodeChildren for a node whose fetch is in flight
C1_Witness ==
    /\ lastFetch.kind = "skip"
    /\ heap[lastFetch.node].isLoading
    /\ LoadsInFlight(lastFetch.node) = 1

\* the children of a node object, with what identifies each of them
ChildList(h, a) ==
    [k \in DOMAIN h[a].children.items |->
        <<h[a].children.items[k], h[h[a].children.items[k]].id,
          h[h[a].children.items[k]].url>>]

\* C2: once the children of a node are non-null, no step changes their
\* membership, order or size, and no further fetch is issued for the node
C2_ChildrenImmutable ==
    [][\A a \in Objects :
          (~heap[a].children.isNull /\ heap'[a] # Freed) =>
              /\ ~heap'[a].children.isNull
              /\ ChildList(heap', a) = ChildList(heap, a)
              /\ loadsIssued'[a] = loadsIssued[a]
              /\ ~heap'[a].isLoading
              /\ LoadsInFlight(a)' = 0]_vars

\* collapseAll has just run on a tree in which a node below the root was
\* loaded with a child
C2_Witness ==
    /\ treeData # 0
    /\ toast = <<"Collapsed all">>
    /\ \E a \in Subtree(heap, treeData) \ {treeData} :
          /\ ~heap[a].children.isNull
          /\ heap[a].children.items # <<>>
          /\ loadsIssued[a] = 1

\* the step ends a call of the given kind (its fetchWithProxy returned or
\* threw) that was issued before a clearAll()
EndsClearedCall(kind) ==
    /\ lastFetch'.kind = kind
    /\ \E c \in BagToSet(inflight) :
          /\ c.cleared
          /\ c.kind = kind
          /\ CopiesIn(c, inflight') < CopiesIn(c, inflight)

\* no explore has been started since the last clearAll()
NothingSinceClear ==
    /\ treeData = 0
    /\ expandedNodes = {}
    /\ allDiscoveredUrls = {}
    /\ view.kind = "empty"
    /\ \A c \in BagToSet(inflight) : c.cleared

\* C3: a response to a fetch issued before clearAll() that arrives after it
\* and before the next explore installs no tree and leaves the tree absent
\* and the expansion set and the discovered-URL set empty
C3_StaleResponseIgnored ==
    [][(NothingSinceClear /\ (EndsClearedCall("explore") \/ EndsClearedCall("load")))
          => /\ treeData' = 0
             /\ expandedNodes' = {}
             /\ allDiscoveredUrls' = {}]_vars

\* the node objects the step creates
Created == {a \in DOMAIN heap' : a > Len(heap)}

\* the node objects the view shows
Shown(v) == {v.nodes[k] : k \in DOMAIN v.nodes}

\* C4: when the fetch of a node load that was pending at a clearAll()
\* resolves, the children it creates are in no rendered tree, then or later
\* (no node of a tree or of the view is ever an object that was dropped),
\* and the step shows no tree where there was none
C4_StaleChildrenNeverRendered ==
    /\ [](\A a \in Subtree(heap, treeData) \cup Shown(view) : heap[a] # Freed)
    /\ [][\A a \in DOMAIN heap : heap[a] = Freed => heap'[a] = Freed]_vars
    /\ [][EndsClearedCall("load") =>
            /\ \A a \in Created :
                  /\ heap'[a] = Freed
                  /\ a \notin Subtree(heap', treeData') \cup Shown(view')
            /\ treeData' = treeData
            /\ treeData = 0 => view'.kind = "empty"]_vars

\* the fetch of a node load that was pending at a clearAll() has just
\* returned a page with a link, and no tree is shown
C4_Witness ==
    /\ lastFetch.kind = "load"
    /\ lastFetch.ok
    /\ ExtractLinksOf(lastFetch.html, lastFetch.url).links # <<>>
    /\ heap[lastFetch.node] = Freed
    /\ treeData = 0
    /\ view.kind = "empty"

\* the proxy indexes from..to in list order
Upto(from, to) == [k \in 1..(to - from + 1) |-> from + k - 1]

\* C5: fetchWithProxy(url, s) asks the proxies s, s+1, ... in list order,
\* each once; when it returns, it returns the body of the first proxy that
\* answered with HTML and workingProxyIndex is the index of that proxy
C5_ProxyFallbackOrder ==
    /\ \A c \in BagToSet(inflight) :
          /\ c.proxyIndex \in c.start..(NumProxies - 1)
          /\ c.tried = Upto(c.start, c.proxyIndex - 1)
    /\ lastFetch.ok =>
          /\ lastFetch.tried = Upto(lastFetch.start, lastFetch.proxyIndex)
          /\ lastFetch.html = lastFetch.answer
          /\ ResponseIsHtml([ok |-> TRUE, html |-> lastFetch.html])
          /\ workingProxyIndex = lastFetch.proxyIndex

\* P1 and P2 failed and P3 answered: the fetch returned P3's body and the
\* remembered index is 2
C5_Witness ==
    /\ lastFetch.ok
    /\ lastFetch.tried = <<0, 1, 2>>
    /\ lastFetch.html = lastFetch.answer
    /\ workingProxyIndex = 2

\* the fetchWithProxy call that ended in the last step threw
FetchFailed == lastFetch.kind \in {"explore", "load"} /\ ~lastFetch.ok

\* C6 as stated: 'All CORS proxies failed' is thrown only after every proxy
\* of the list has failed for that fetch
C6_EveryProxyFailed ==
    FetchFailed =>
        {lastFetch.tried[k] : k \in DOMAIN lastFetch.tried} = 0..(NumProxies - 1)

\* C6, amended: 'All CORS proxies failed' is thrown only after every proxy
\* from the start index of the call to the end of the list has failed, each
\* asked once; the call is over, a node load shows the message as the error
\* of its node, which is loaded-empty and no longer loading, and an explore
\* shows the failure toast and, unless linkTree is hidden, the error state
C6_ProxiesFromStartFailed ==
    FetchFailed =>
        /\ lastFetch.tried = Upto(lastFetch.start, NumProxies - 1)
        /\ lastFetch.kind = "load" /\ heap[lastFetch.node] # Freed =>
              /\ heap[lastFetch.node].error = AllProxiesFailed
              /\ heap[lastFetch.node].children = Children(<<>>)
              /\ ~heap[lastFetch.node].isLoading
              /\ LoadsInFlight(lastFetch.node) = 0
        /\ lastFetch.kind = "explore" =>
              /\ view.kind \in {"error", "empty"}
              /\ toast = <<"Failed to load page">>

\* a node load that started at the remembered proxy index 2 failed after
\* asking that proxy alone, and its node in the tree shows the error
C6_Witness ==
    /\ FetchFailed
    /\ lastFetch.kind = "load"
    /\ lastFetch.tried = <<2>>
    /\ lastFetch.node \in Subtree(heap, treeData)
    /\ heap[lastFetch.node].error = AllProxiesFailed

\* C7: a step of startExploration whose URL normalizeUrl rejects shows the
\* invalid-URL toast, and the step that shows it changes neither the tree,
\* the expansion set, the discovered-URL set, the id counter, the remembered
\* proxy index nor the view, and issues no fetch
C7_InvalidUrlNoChange ==
    [][/\ \A url \in SeedInputs :
             (NormalizedSeed[url].isNull /\ StartExploration(url))
                 => toast' = <<"Please enter a valid URL">>
       /\ toast' = <<"Please enter a valid URL">> =>
             /\ UNCHANGED <<treeData, allDiscoveredUrls, expandedNodes,
                            nodeIdCounter, workingProxyIndex, heap, view, stats>>
             /\ inflight' = inflight]_vars

\* the invalid-URL toast is up over a tree that is still there, with a
\* remembered proxy index other than the initial one
C7_Witness ==
    /\ toast = <<"Please enter a valid URL">>
    /\ treeData # 0
    /\ view.kind = "tree"
    /\ expandedNodes # {}
    /\ workingProxyIndex > 0

\* C8: when the root fetch of an explore has failed, there is no tree, the
\* expansion set is empty and the failure toast is shown
C8_RootFailureLeavesNoTree ==
    (lastFetch.kind = "explore" /\ ~lastFetch.ok) =>
        /\ treeData = 0
        /\ expandedNodes = {}
        /\ toast = <<"Failed to load page">>

\* the links that the extraction of the page of the last fetch gives
LastLinks == ExtractLinksOf(lastFetch.html, lastFetch.url).links

\* the tree is a root for the URL of the last fetch whose children are the
\* links of that page in extraction order, each unloaded and not loading
TreeOfLastFetch ==
    /\ treeData # 0
    /\ heap[treeData].url = lastFetch.url
    /\ heap[treeData].isRoot
    /\ ~heap[treeData].isLoading
    /\ ~heap[treeData].children.isNull
    /\ Len(heap[treeData].children.items) = Len(LastLinks)
    /\ \A k \in DOMAIN LastLinks :
          /\ heap[heap[treeData].children.items[k]].url = LastLinks[k].url
          /\ heap[heap[treeData].children.items[k]].children.isNull
          /\ ~heap[heap[treeData].children.items[k]].isLoading
    /\ view.kind = "tree"

\* C9: when an explore has succeeded, the tree is a root for the normalized
\* seed URL with the children of the root extraction in extraction order,
\* every other node is unloaded and not loading, and the expansion set is
\* exactly {root id}
C9_ExploreBuildsRoot ==
    (lastFetch.kind = "explore" /\ lastFetch.ok) =>
        /\ TreeOfLastFetch
        /\ expandedNodes = {heap[treeData].id}

\* the step issues the root fetch of an explore
IssuesRootFetch ==
    \E c \in BagToSet(inflight') :
        /\ c.kind = "explore"
        /\ c.tried = <<>>
        /\ ~c.cleared
        /\ CopiesIn(c, inflight') > CopiesIn(c, inflight)

Loading(a) == a \in DOMAIN heap /\ heap[a].isLoading

\* the load of the node object at address a has just completed: its
\* fetchWithProxy call ended, and the node, unless nothing references it any
\* more, is not loading and has non-null children
LoadCompleted(a) ==
    /\ lastFetch.kind = "load"
    /\ lastFetch.node = a
    /\ LoadsInFlight(a) = 0
    /\ heap[a] # Freed =>
          /\ ~heap[a].isLoading
          /\ ~heap[a].children.isNull
          /\ lastFetch.ok \/ (heap[a].children.items = <<>>
                                 /\ heap[a].error # NoError)

\* C11: when every proxy request eventually resolves or rejects, every node
\* load that is started eventually completes: the node ends not loading
\* with non-null children (empty, with an error, when the fetch failed)
C11_LoadEventuallyCompletes ==
    \A a \in 1..MaxNodes : Loading(a) ~> LoadCompleted(a)

\* a node load has just failed on a node of the tree, which is left not
\* loading, loaded-empty and with an error
C11_Witness ==
    /\ lastFetch.kind = "load"
    /\ ~lastFetch.ok
    /\ lastFetch.node \in Subtree(heap, treeData)
    /\ LoadCompleted(lastFetch.node)

\* C12: the step in which a node load completes, with success or failure,
\* leaves every other node object as it was (children, loading flag, error
\* and all other fields), keeps what identifies the loaded node, and leaves
\* the tree root and the expansion set unchanged
C12_LoadTouchesOnlyItsNode ==
    [][lastFetch'.kind = "load" =>
          /\ \A b \in Objects \ {lastFetch'.node} :
                heap'[b] # Freed => heap'[b] = heap[b]
          /\ heap'[lastFetch'.node] # Freed =>
                /\ heap'[lastFetch'.node].id = heap[lastFetch'.node].id
                /\ heap'[lastFetch'.node].url = heap[lastFetch'.node].url
                /\ heap'[lastFetch'.node].text = heap[lastFetch'.node].text
                /\ heap'[lastFetch'.node].isRoot = heap[lastFetch'.node].isRoot
          /\ expandedNodes' = expandedNodes
          /\ treeData' = treeData]_vars

\* a node load has just failed on a node of the tree while a sibling, also
\* in the tree, is still loading
C12_Witness ==
    /\ lastFetch.kind = "load"
    /\ ~lastFetch.ok
    /\ lastFetch.node \in Subtree(heap, treeData)
    /\ heap[lastFetch.node].error # NoError
    /\ \E b \in Subtree(heap, treeData) \ {lastFetch.node} :
          heap[b].isLoading /\ heap[b].error = NoError

\* the position of the node object at address a in what the view shows
PosIn(v, a) == CHOOSE k \in DOMAIN v.nodes : v.nodes[k] = a

\* the view shows the children of the node object at address a, in order
ShowsChildren(v, h, a) ==
    /\ \A k \in DOMAIN h[a].children.items :
          h[a].children.items[k] \in Shown(v)
    /\ \A k, l \in DOMAIN h[a].children.items :
          k < l => PosIn(v, h[a].children.items[k]) < PosIn(v, h[a].children.items[l])

\* C13: handleToggle(id) on a node of the tree whose id is in the expansion
\* set removes exactly that id, issues no fetch and leaves every node as it
\* was; handleToggle(id) on a collapsed node whose children are loaded adds
\* the id back without a fetch, and the view, where it shows the node, shows
\* its unchanged children in their order
C13_CollapseKeepsChildren ==
    [][\A k \in 1..MaxNodes :
          (findNodeById(heap, treeData, NodeId(k)) # 0 /\ HandleToggle(NodeId(k))) =>
              /\ NodeId(k) \in expandedNodes =>
                    /\ expandedNodes' = expandedNodes \ {NodeId(k)}
                    /\ UNCHANGED <<heap, inflight, loadsIssued, treeData>>
              /\ (/\ NodeId(k) \notin expandedNodes
                  /\ ~heap[findNodeById(heap, treeData, NodeId(k))].children.isNull) =>
                    /\ expandedNodes' = expandedNodes \cup {NodeId(k)}
                    /\ UNCHANGED <<heap, inflight, loadsIssued, treeData>>
                    /\ view'.kind = "tree"
                    /\ findNodeById(heap, treeData, NodeId(k)) \in Shown(view') =>
                          ShowsChildren(view', heap',
                                        findNodeById(heap, treeData, NodeId(k)))]_vars

\* a node below the root that was loaded with a child is collapsed, by a
\* step other than collapseAll: the view shows the node and not its child
C13_Witness ==
    /\ treeData # 0
    /\ toast = NoToast
    /\ lastFetch = NoFetch
    /\ \E a \in Subtree(heap, treeData) \ {treeData} :
          /\ ~heap[a].children.isNull
          /\ heap[a].children.items # <<>>
          /\ heap[a].id \notin expandedNodes
          /\ a \in Shown(view)
          /\ heap[a].children.items[1] \notin Shown(view)

\* the step issues one fetch, for the children of the node object at address a
IssuesLoad(a) ==
    /\ loadsIssued'[a] = loadsIssued[a] + 1
    /\ BagCardinality(inflight') = BagCardinality(inflight) + 1
    /\ \E c \in BagToSet(inflight') :
          /\ c.kind = "load" /\ c.node = a /\ c.url = heap[a].url /\ c.tried = <<>>
          /\ CopiesIn(c, inflight') = CopiesIn(c, inflight) + 1

\* C14: handleToggle(id) on a node of the tree whose id is not in the
\* expansion set adds the id in that step; the step issues a fetch for the
\* node exactly when its children are unloaded and no load for it is in
\* flight, and otherwise leaves the calls in flight as they were
C14_ExpandAddsIdAndFetchesOnce ==
    [][\A k \in 1..MaxNodes :
          (/\ findNodeById(heap, treeData, NodeId(k)) # 0
           /\ NodeId(k) \notin expandedNodes
           /\ HandleToggle(NodeId(k))) =>
              /\ expandedNodes' = expandedNodes \cup {NodeId(k)}
              /\ IF /\ heap[findNodeById(heap, treeData, NodeId(k))].children.isNull
                    /\ LoadsInFlight(findNodeById(heap, treeData, NodeId(k))) = 0
                 THEN IssuesLoad(findNodeById(heap, treeData, NodeId(k)))
                 ELSE UNCHANGED <<inflight, loadsIssued>>]_vars

\* a node below the root was toggled open: its id is in the expansion set
\* while its one fetch has had no response yet
C14_Witness ==
    /\ treeData # 0
    /\ toast = NoToast
    /\ lastFetch = NoFetch
    /\ \E a \in Subtree(heap, treeData) \ {treeData} :
          /\ heap[a].id \in expandedNodes
          /\ heap[a].children.isNull
          /\ heap[a].isLoading
          /\ loadsIssued[a] = 1
          /\ \E c \in BagToSet(inflight) :
                c.kind = "load" /\ c.node = a /\ c.tried = <<>> /\ ~c.cleared

\* the domains of the nodes of the tree
TreeDomains ==
    {heap[a].domain.str :
        a \in {b \in Subtree(heap, treeData) :
                  ~heap[b].domain.isNull /\ heap[b].domain.str # <<>>}}

\* C15: whenever a tree exists the stats bar is shown and its numbers are
\* those of the current state: total is the number of nodes of the tree,
\* expanded is the size of the expansion set, domains is the number of
\* distinct node domains
C15_StatsMatchState ==
    treeData # 0 =>
        /\ ~stats.hidden
        /\ stats.total = Cardinality(Subtree(heap, treeData))
        /\ stats.expanded = Cardinality(expandedNodes)
        /\ stats.domains = Cardinality(TreeDomains)

(***************************************************************************)
(* Properties of extractLinks and normalizeUrl.                            *)
(***************************************************************************)
\* extractLinks was called and has returned
Extraction == args.fn = "extractLinks" /\ returned.called

\* the normalized URL of every anchor of a page
NormalizedHrefs(anchors, sourceUrl) ==
    [i \in DOMAIN anchors |-> normalizeUrl(anchors[i].href, Str(sourceUrl))]

\* the anchors that qualify: not excluded, normalized, not the source URL
QualifyingAnchors(anchors, sourceUrl, norm) ==
    {i \in DOMAIN anchors :
        /\ ~shouldExcludeUrl(anchors[i].href)
        /\ ~norm[i].isNull
        /\ norm[i].str # sourceUrl}

\* the qualifying anchors that are the first of their normalized URL
FirstAnchors(qualifying, norm) ==
    {i \in qualifying : \A j \in qualifying : j < i => norm[j] # norm[i]}

FirstOccurrences(anchors, sourceUrl) ==
    FirstAnchors(QualifyingAnchors(anchors, sourceUrl,
                                   NormalizedHrefs(anchors, sourceUrl)),
                 NormalizedHrefs(anchors, sourceUrl))

\* how many first anchors come before anchor i
Rank(firsts, i) == Cardinality({j \in firsts : j < i})

\* the links are those of the first anchors, in their order, with their text
LinksInFirstSeenOrder(anchors, links, norm, firsts) ==
    /\ \A i \in firsts :
          Rank(firsts, i) < MAX_LINKS_PER_PAGE =>
              /\ Rank(firsts, i) + 1 \in DOMAIN links
              /\ links[Rank(firsts, i) + 1].url = norm[i].str
              /\ links[Rank(firsts, i) + 1].text = LinkText(anchors[i].text, norm[i].str)
    /\ \A k \in DOMAIN links : \E i \in firsts : Rank(firsts, i) = k - 1
    /\ \A k, l \in DOMAIN links : links[k].url = links[l].url => k = l

\* C16: extractLinks returns one link per distinct normalized URL, at the
\* position of the first qualifying anchor of that URL among the first
\* anchors and with the text of that anchor; later anchors of the URL add
\* no record and change nothing
C16_FirstOccurrenceWins ==
    Extraction =>
        LinksInFirstSeenOrder(args.html.anchors, returned.value.links,
                              NormalizedHrefs(args.html.anchors, args.sourceUrl),
                              FirstOccurrences(args.html.anchors, args.sourceUrl))

\* a page where a later anchor, with another text and another href, has the
\* normalized URL of an earlier qualifying anchor, and a further link follows
C16_Witness ==
    /\ Extraction
    /\ Len(returned.value.links) = 2
    /\ Len(args.html.anchors) = 3
    /\ 1 \in FirstOccurrences(args.html.anchors, args.sourceUrl)
    /\ 3 \in FirstOccurrences(args.html.anchors, args.sourceUrl)
    /\ ~shouldExcludeUrl(args.html.anchors[2].href)
    /\ args.html.anchors[2].href # args.html.anchors[1].href
    /\ args.html.anchors[2].text # args.html.anchors[1].text
    /\ NormalizedHrefs(args.html.anchors, args.sourceUrl)[2]
          = NormalizedHrefs(args.html.anchors, args.sourceUrl)[1]

\* two URLs of the same page: equal once parsed and stripped of the fragment
SamePage(u, v) ==
    /\ ~Canonical(ParseUrl(u)).isNull
    /\ Canonical(ParseUrl(u)) = Canonical(ParseUrl(v))

\* C17: no link that extractLinks returns is a URL of the source page
C17_NoSelfLink ==
    Extraction =>
        \A k \in DOMAIN returned.value.links :
            ~SamePage(returned.value.links[k].url, args.sourceUrl)

\* the first anchor with this rank
NthFirst(firsts, k) == CHOOSE i \in firsts : Rank(firsts, i) = k - 1

\* the result for the d first anchors of a page
CappedAt(result, norm, firsts, d) ==
    /\ Len(result.links) = (IF d < 50 THEN d ELSE 50)
    /\ \A k \in DOMAIN result.links :
          result.links[k].url = norm[NthFirst(firsts, k)].str
    /\ result.totalFound = d
    /\ result.wasTruncated <=> d > 50

\* C18: extractLinks returns the first min(d, 50) of the d distinct
\* qualifying links, totalFound = d, and wasTruncated is true exactly when
\* d > 50
C18_CapAndCount ==
    Extraction =>
        CappedAt(returned.value,
                 NormalizedHrefs(args.html.anchors, args.sourceUrl),
                 FirstOccurrences(args.html.anchors, args.sourceUrl),
                 Cardinality(FirstOccurrences(args.html.anchors, args.sourceUrl)))

\* a page with 52 distinct qualifying links: 50 are returned
C18_Witness ==
    /\ Extraction
    /\ Cardinality(FirstOccurrences(args.html.anchors, args.sourceUrl)) = 52
    /\ Len(returned.value.links) = 50
    /\ returned.value.totalFound = 52
    /\ returned.value.wasTruncated

\* the hrefs that never give a link: fragment-only, a javascript:, mailto:,
\* tel: or data: scheme, an excluded file extension, protocol-relative
ExcludedHref(href) ==
    \/ href # <<>> /\ href[1] = "#"
    \/ \E scheme \in {<<"j","a","v","a","s","c","r","i","p","t">>, <<"m","a","i","l","t","o">>,
                       <<"t","e","l">>, <<"d","a","t","a">>} :
          StartsWith(ToLower(href), scheme \o <<":">>)
    \/ \E ext \in FileExtensions : EndsWith(ToLower(href), <<".">> \o ext)
    \/ Len(href) > 2 /\ SubSeq(href, 1, 2) = <<"/", "/">> /\ href[3] # "/"

\* every link comes from an anchor whose href is not one of those
LinksFromAllowedAnchors(anchors, links, norm) ==
    \A k \in DOMAIN links :
        \E i \in DOMAIN anchors :
            ~ExcludedHref(anchors[i].href) /\ norm[i] = Str(links[k].url)

\* C19: an anchor with an excluded href gives no link; for the seed
\* https://example.com/docs/ with the anchors /docs/a, #top,
\* https://example.com/docs/a and https://other.com/x.pdf the links are
\* exactly one, https://example.com/docs/a, not external
C19_ExcludedHrefsGiveNoLink ==
    Extraction =>
        /\ LinksFromAllowedAnchors(args.html.anchors, returned.value.links,
                                   NormalizedHrefs(args.html.anchors, args.sourceUrl))
        /\ (args.sourceUrl = DocsUrl /\ args.html.anchors = DocsAnchors) =>
              /\ Len(returned.value.links) = 1
              /\ returned.value.links[1].url = DocsA
              /\ ~returned.value.links[1].isExternal

\* extractLinks has returned for the documented scenario
C19_Witness ==
    /\ Extraction
    /\ args.sourceUrl = DocsUrl
    /\ args.html.anchors = DocsAnchors
    /\ returned.value.totalFound = 1

\* the string has a path: a "/" ends its authority
HasPath(url) ==
    LET aStart == FirstNotIn(url, {"/"}, FirstIn(url, {":"}, 1) + 1)
        aEnd   == FirstIn(url, {"/", "?", "#"}, aStart)
    IN  aEnd <= Len(url) /\ url[aEnd] = "/"

\* an absolute http(s) URL without a fragment and with a path
WellFormed(url) ==
    /\ ParseUrl(url).ok
    /\ ParseUrl(url).protocol \in {<<"h","t","t","p",":">>, <<"h","t","t","p","s",":">>}
    /\ "#" \notin Range(url)
    /\ HasPath(url)

\* C20: normalizeUrl returns null or an absolute http(s) URL without a
\* fragment and with a non-empty path, with or without a base
C20_NormalizedOrNull ==
    (args.fn = "normalizeUrl" /\ returned.called) =>
        \/ returned.value.isNull
        \/ WellFormed(returned.value.str)

\* C21: a URL that normalizeUrl returned is returned unchanged when it is
\* normalized again, without a base and with the same base
C21_NormalizeIdempotent ==
    (args.fn = "normalizeUrl" /\ returned.called /\ ~returned.value.isNull) =>
        /\ normalizeUrl(returned.value.str, NullStr) = returned.value
        /\ normalizeUrl(returned.value.str, args.baseUrl) = returned.value

\* the node objects that the step creates and keeps
CreatedInStep == {a \in (Len(heap) + 1)..Len(heap') : heap'[a] # Freed}

\* C22: the id that createNode returns is greater than every id it returned
\* before.  Ids are handed out one by one from node-1, so the ids returned
\* before are those up to the number of node objects created so far, which
\* is Len(heap): clearAll and startExploration drop objects, never addresses
C22_IdsNeverReused ==
    [][\A a \in CreatedInStep : heap'[a].id[2] > Len(heap)]_vars

\* C23: the step of collapseAll (the one that shows "Collapsed all") leaves
\* the id of the root alone in the expansion set when there is a tree, and
\* the expansion set as it was, empty, when there is none; the node objects
\* and the calls in flight stay as they were
C23_CollapseAllKeepsRoot ==
    [][toast' = <<"Collapsed all">> =>
          /\ treeData # 0 => expandedNodes' = {heap[treeData].id}
          /\ treeData = 0 => expandedNodes' = expandedNodes /\ expandedNodes = {}
          /\ UNCHANGED <<treeData, heap, inflight, loadsIssued>>]_vars

\* collapseAll has run while a node below the root was loading: only the
\* root is expanded and the load still waits for its response
C23_Witness ==
    /\ toast = <<"Collapsed all">>
    /\ treeData # 0
    /\ expandedNodes = {heap[treeData].id}
    /\ \E a \in Subtree(heap, treeData) \ {treeData} :
          heap[a].isLoading /\ LoadsInFlight(a) = 1

\* what startExploration leaves in a session that has done nothing before,
\* up to its await: no tree, empty sets, the id counter at 0, the loading
\* state, and its root fetch as the only call that waits for a response
FreshExploreStarted ==
    /\ treeData' = 0
    /\ expandedNodes' = {}
    /\ allDiscoveredUrls' = {}
    /\ nodeIdCounter' = 0
    /\ view'.kind = "loading"
    /\ stats' = HiddenStats
    /\ BagCardinality(inflight') = 1

\* C24: the step of clearAll (the one that shows "Cleared") leaves no tree,
\* an empty expansion set and an empty discovered-URL set, whatever the
\* state before; an explore started next leaves the session as an explore
\* in a fresh session does
C24_ClearReturnsToIdle ==
    /\ [][toast' = <<"Cleared">> =>
            /\ treeData' = 0
            /\ expandedNodes' = {}
            /\ allDiscoveredUrls' = {}
            /\ view'.kind = "empty"]_vars
    /\ [][(toast = <<"Cleared">> /\ IssuesRootFetch) => FreshExploreStarted]_vars

\* the nodes of the tree that are marked as root
RootsOfTree == {a \in Subtree(heap, treeData) : heap[a].isRoot}

\* C25: while there is a tree its root is its only node with isRoot, is not
\* external and has its children loaded, so that handleToggle on the id of
\* the root issues no fetch
C25_OneLoadedRoot ==
    /\ [](treeData # 0 =>
            /\ RootsOfTree = {treeData}
            /\ ~heap[treeData].isExternal
            /\ ~heap[treeData].children.isNull
            /\ ~heap[treeData].isLoading
            /\ LoadsInFlight(treeData) = 0)
    /\ [][(treeData # 0 /\ HandleToggle(heap[treeData].id)) =>
            /\ UNCHANGED <<inflight, loadsIssued, heap>>
            /\ loadsIssued[treeData] = 0]_vars

\* the root of a tree with children was collapsed by handleToggle: no fetch
\* was ever issued for it
C25_Witness ==
    /\ treeData # 0
    /\ toast = NoToast
    /\ heap[treeData].id \notin expandedNodes
    /\ heap[treeData].children.items # <<>>
    /\ loadsIssued[treeData] = 0
    /\ view.kind = "tree"

\* C26: no node object is loading with non-null children, and a node object
\* is loading exactly while a fetch for its children waits for a response
C26_LoadingIffInFlight ==
    \A a \in Objects :
        /\ ~(heap[a].isLoading /\ ~heap[a].children.isNull)
        /\ heap[a].isLoading <=> LoadsInFlight(a) > 0

\* a node of the tree is loading while its fetch, after a proxy failed, waits
\* for the next proxy, and another node of the tree is loaded
C26_Witness ==
    /\ treeData # 0
    /\ \E a \in Subtree(heap, treeData) :
          /\ heap[a].isLoading
          /\ heap[a].children.isNull
          /\ \E c \in BagToSet(inflight) :
                c.kind = "load" /\ c.node = a /\ c.tried # <<>>
    /\ \E b \in Subtree(heap, treeData) \ {treeData} :
          ~heap[b].isLoading /\ ~heap[b].children.isNull /\ LoadsInFlight(b) = 0

\* the step ends the load of the node object at address a, which is kept
EndsLoadOf(a, ok) ==
    /\ lastFetch'.kind = "load"
    /\ lastFetch'.node = a
    /\ lastFetch'.ok = ok
    /\ heap'[a] # Freed

\* C27: a node object with an error has an empty list of children,
\* totalFound 0 and wasTruncated false; the error is set by the step in
\* which the fetch for the children of the node fails and by no other, and
\* the step in which that fetch succeeds leaves the error null
C27_ErrorMeansEmpty ==
    /\ [](\A a \in Objects :
            heap[a].error # NoError =>
                /\ heap[a].children = Children(<<>>)
                /\ heap[a].totalFound = 0
                /\ ~heap[a].wasTruncated)
    /\ [][\A a \in Objects :
            /\ EndsLoadOf(a, FALSE) => heap'[a].error # NoError
            /\ EndsLoadOf(a, TRUE) => heap'[a].error = NoError
            /\ (heap[a].error = NoError /\ heap'[a].error # NoError) =>
                  EndsLoadOf(a, FALSE)]_vars

\* in a tree one node failed to load and has an error, another one was
\* loaded without one
C27_Witness ==
    /\ treeData # 0
    /\ \E a, b \in Subtree(heap, treeData) \ {treeData} :
          /\ heap[a].error # NoError
          /\ heap[a].children = Children(<<>>)
          /\ loadsIssued[a] = 1
          /\ heap[b].error = NoError
          /\ ~heap[b].children.isNull
          /\ loadsIssued[b] = 1
          /\ LoadsInFlight(b) = 0

\* the smaller of two numbers
Min(m, n) == IF m < n THEN m ELSE n

\* the children of the node object at address a are the links of the page,
\* in extraction order, up to the cap
ChildrenOfPage(a, links) ==
    /\ Len(heap[a].children.items) = Len(links)
    /\ \A k \in DOMAIN links :
          heap[heap[a].children.items[k]].url = links[k].url

\* C28: every loaded node of the tree, the root as well as a node loaded
\* later, has at most 50 children, as many as min(totalFound, 50), which are
\* the links of its page in extraction order, and wasTruncated exactly when
\* totalFound > 50
C28_ChildrenCapped ==
    \A a \in Subtree(heap, treeData) :
        ~heap[a].children.isNull =>
            /\ Len(heap[a].children.items) <= 50
            /\ Len(heap[a].children.items) = Min(heap[a].totalFound, 50)
            /\ heap[a].wasTruncated <=> heap[a].totalFound > 50
            /\ heap[a].totalFound
                  = Cardinality(FirstOccurrences(args.html.anchors, heap[a].url))
            /\ ChildrenOfPage(a, extractLinks(args.html, heap[a].url).links)

\* the root was built from a page of 52 links and its first link was loaded
\* from a page of 51: both have 50 children and are truncated
C28_Witness ==
    /\ treeData # 0
    /\ Len(heap[treeData].children.items) = 50
    /\ heap[treeData].totalFound = 52
    /\ heap[treeData].wasTruncated
    /\ ~heap[heap[treeData].children.items[1]].children.isNull
    /\ Len(heap[heap[treeData].children.items[1]].children.items) = 50
    /\ heap[heap[treeData].children.items[1]].totalFound = 51
    /\ heap[heap[treeData].children.items[1]].wasTruncated

\* the calls that the step starts
StartedCalls ==
    {c \in BagToSet(inflight') :
        /\ BagCardinality(inflight') > BagCardinality(inflight)
        /\ CopiesIn(c, inflight') > CopiesIn(c, inflight)
        /\ c.tried = <<>>}

\* C29: the remembered proxy index is the index of the proxy of the last
\* fetch that succeeded (a step changes it only by ending a fetch with
\* success, to the index of the proxy that answered); a node load that
\* starts asks the proxy at the remembered index first and never a proxy
\* before it; startExploration passes no index and starts at proxy 0
C29_LoadsStartAtRemembered ==
    /\ [][ /\ (lastFetch'.kind \in {"explore", "load"} /\ lastFetch'.ok) =>
                workingProxyIndex' = lastFetch'.proxyIndex
           /\ workingProxyIndex' # workingProxyIndex =>
                lastFetch'.kind \in {"explore", "load"} /\ lastFetch'.ok
           /\ \A c \in StartedCalls :
                /\ c.kind = "load" =>
                      c.start = workingProxyIndex /\ c.proxyIndex = workingProxyIndex
                /\ c.kind = "explore" => c.start = 0 /\ c.proxyIndex = 0]_vars
    /\ [](\A c \in BagToSet(inflight) :
            /\ c.proxyIndex >= c.start
            /\ \A k \in DOMAIN c.tried : c.tried[k] >= c.start)

\* after a fetch that succeeded at the last proxy, a node load has started:
\* its first request goes to that proxy
C29_Witness ==
    /\ workingProxyIndex = 2
    /\ treeData # 0
    /\ \E c \in BagToSet(inflight) :
          /\ c.kind = "load"
          /\ c.node \in Subtree(heap, treeData)
          /\ c.start = 2
          /\ c.proxyIndex = 2
          /\ c.tried = <<>>

\* a response with a non-success status, or whose body has no "<" or is
\* shorter than 100 characters
BadResponse(resp) ==
    \/ ~resp.ok
    \/ ~resp.html.hasLt
    \/ resp.html.length < 100

\* the step is the continuation of the call c when the response arrives
Arrives(c, resp) ==
    \/ ProxyFailed(c, resp)
    \/ ExploreLoaded(c, resp)
    \/ ExploreFailed(c, resp)
    \/ NodeLoaded(c, resp)
    \/ NodeFailed(c, resp)

\* the call c goes on with the next proxy, or is over when none is left
FailsOver(c) ==
    IF c.proxyIndex + 1 < NumProxies
    THEN /\ lastFetch' = NoFetch
         /\ inflight' = Add(Remove(inflight, c),
                            [c EXCEPT !.proxyIndex = c.proxyIndex + 1,
                                      !.tried = Append(c.tried, c.proxyIndex)])
    ELSE /\ lastFetch'.kind = c.kind
         /\ ~lastFetch'.ok
         /\ inflight' = Remove(inflight, c)

\* C30: when the response of a proxy has a non-success status, or a body
\* without "<" or shorter than 100 characters, fetchWithProxy goes on with
\* the next proxy (or throws when there is none), returns no body (no node
\* is created, no URL is discovered) and leaves workingProxyIndex as it was
C30_BadResponseIsProxyFailure ==
    [][\A c \in BagToSet(inflight) : \A resp \in Responses(c.url) :
          (BadResponse(resp) /\ Arrives(c, resp)) =>
              /\ FailsOver(c)
              /\ UNCHANGED <<workingProxyIndex, nodeIdCounter, allDiscoveredUrls,
                             treeData>>]_vars

\* the first proxy failed for the root fetch of an explore, which goes on
\* with the second one; the remembered index is still that of the last
\* proxy
C30_Witness ==
    /\ workingProxyIndex = 2
    /\ lastFetch = NoFetch
    /\ \E c \in BagToSet(inflight) :
          c.kind = "explore" /\ c.tried = <<0>> /\ c.proxyIndex = 1

\* C31: no two nodes of the current tree have the same id, and the id of a
\* node object never changes while the object exists
C31_TreeIdsUnique ==
    /\ [](\A a, b \in Subtree(heap, treeData) : heap[a].id = heap[b].id => a = b)
    /\ [][\A a \in Objects : heap'[a] # Freed => heap'[a].id = heap[a].id]_vars

\* a tree of three nodes built by a second explore: its ids start again at
\* node-1 and are distinct
C31_Witness ==
    /\ treeData > 1
    /\ heap[treeData].id = NodeId(1)
    /\ Cardinality(Subtree(heap, treeData)) = 3
    /\ Cardinality({heap[a].id : a \in Subtree(heap, treeData)}) = 3

\* the ids of the nodes of the current tree
TreeIds == {heap[a].id : a \in Subtree(heap, treeData)}

\* C32: every id of the expansion set is the id of a node of the current
\* tree; the set is empty when there is no tree, and has no more members
\* than the tree has nodes
C32_ExpandedAreTreeNodes ==
    /\ expandedNodes \subseteq TreeIds
    /\ treeData = 0 => expandedNodes = {}
    /\ Cardinality(expandedNodes) <= countTotalLinks(heap, treeData)

\* the calls of startExploration that wait for the response to their root fetch
ExploresInFlight ==
    BagCardinality([c \in {d \in BagToSet(inflight) : d.kind = "explore"} |->
                       inflight[c]])

\* the tree is as an explore has just installed it and other explores wait:
\* those explores and the one of the tree were in flight together
OverlappedExploreShown ==
    /\ treeData # 0
    /\ expandedNodes = {heap[treeData].id}
    /\ ExploresInFlight = 1
    /\ \A c \in BagToSet(inflight) : ~c.cleared

\* C33: when the last of the explores that were in flight together gets its
\* page, a tree is shown and the expansion set is exactly the id of the root
\* of that tree, whichever of the explores was started last
C33_LastExploreWins ==
    [][(OverlappedExploreShown /\ lastFetch'.kind = "explore" /\ lastFetch'.ok)
          => /\ treeData' # 0
             /\ expandedNodes' = {heap'[treeData'].id}]_vars

\* the URLs of the nodes of the current tree
TreeUrls == {heap[a].url : a \in Subtree(heap, treeData)}

\* C34: the discovered-URL set is the set of the URLs of the nodes of the
\* current tree, and is empty when there is no tree
C34_DiscoveredAreTreeUrls ==
    /\ allDiscoveredUrls = TreeUrls
    /\ treeData = 0 => allDiscoveredUrls = {}

\* the hostname of a URL
Hostname(url) == ParseUrl(url).hostname

\* isExternal and domain are those of a link with this URL that was
\* extracted from the page at sourceUrl
OfLink(isExternal, domain, url, sourceUrl) ==
    /\ ParseUrl(url).ok
    /\ ParseUrl(sourceUrl).ok
    /\ domain = Str(Hostname(url))
    /\ isExternal <=> Hostname(url) # Hostname(sourceUrl)

\* the nodes of the tree whose children are loaded
LoadedNodes == {a \in Subtree(heap, treeData) : ~heap[a].children.isNull}

\* C35: every link record extracted from the page of the last fetch, and
\* every node of the tree under the node of the page it was extracted from,
\* is external exactly when the hostname of its URL differs from the hostname
\* of that page, and its domain is the hostname of its own URL
C35_ExternalIffOtherHostname ==
    /\ lastFetch.ok =>
          \A k \in DOMAIN LastLinks :
              OfLink(LastLinks[k].isExternal, LastLinks[k].domain,
                     LastLinks[k].url, lastFetch.url)
    /\ \A p \in LoadedNodes :
          \A k \in DOMAIN heap[p].children.items :
              OfLink(heap[heap[p].children.items[k]].isExternal,
                     heap[heap[p].children.items[k]].domain,
                     heap[heap[p].children.items[k]].url, heap[p].url)

\* a tree with an external link and a link of the same host under the root,
\* and a link of the same host under a loaded link
C35_Witness ==
    /\ \E p \in LoadedNodes \ {treeData} :
          \E k \in DOMAIN heap[p].children.items :
              ~heap[heap[p].children.items[k]].isExternal
    /\ \E k, j \in DOMAIN heap[treeData].children.items :
          /\ heap[heap[treeData].children.items[k]].isExternal
          /\ ~heap[heap[treeData].children.items[j]].isExternal

\* the last non-empty segment of the path of a URL, or the hostname when the
\* path has none
NameFromUrl(url) ==
    IF FilterNonEmpty(Split(ParseUrl(url).pathname, "/")) # <<>>
    THEN FilterNonEmpty(Split(ParseUrl(url).pathname, "/"))[
             Len(FilterNonEmpty(Split(ParseUrl(url).pathname, "/")))]
    ELSE Hostname(url)

\* the text is the display text of a link to url made from this anchor text
DisplayTextOf(text, anchorText, url) ==
    /\ text # <<>>
    /\ Len(text) <= 200
    /\ IF Take(CollapseSpaces(Trim(anchorText)), 200) # <<>>
       THEN text = Take(CollapseSpaces(Trim(anchorText)), 200)
       ELSE text = NameFromUrl(url)

\* C36: the display text of every link record is not empty and has at most
\* 200 characters: it is the text of the first anchor of the link, trimmed,
\* with white space collapsed and cut to 200 characters, or, when that is
\* empty, the last non-empty path segment of the URL, or the hostname when
\* the path has no segment
C36_DisplayText ==
    Extraction =>
        \A k \in DOMAIN returned.value.links :
            DisplayTextOf(
                returned.value.links[k].text,
                args.html.anchors[
                    NthFirst(FirstOccurrences(args.html.anchors, args.sourceUrl), k)].text,
                returned.value.links[k].url)

(***************************************************************************)
(* Properties of the theme.                                                *)
(***************************************************************************)
\* C37: when the system colour scheme changes, every document whose
\* listener is added takes the new system theme as long as the user has
\* never clicked the theme toggle, and keeps its theme once the user has
C37_SystemThemeFollowed ==
    [][prefersDark' # prefersDark =>
          \A d \in Docs :
              readyState[d] = "ready" =>
                  IF userChose THEN dataTheme'[d] = dataTheme[d]
                  ELSE dataTheme'[d] = Str(SystemTheme(prefersDark'))]_vars

(***************************************************************************)
(* Properties of the JSONL viewer.                                         *)
(***************************************************************************)
\* the number of pages that count entries take: the least number of pages
\* of 50 entries that hold them
PagesFor(count) ==
    CHOOSE n \in 0..count : n * 50 >= count /\ \A k \in 0..(n - 1) : k * 50 < count

\* C38: the current page is 0 when there are no filtered entries and
\* otherwise one of 0 .. totalPages - 1 with totalPages = ceil(filtered
\* count / 50); a call of goToPage with a page outside that range changes
\* nothing; after a load and after a search the page is 0
C38_PageInRange ==
    /\ [](IF filteredEntries = <<>> THEN currentPage = 0
          ELSE currentPage \in 0..(PagesFor(Len(filteredEntries)) - 1))
    /\ [](lastCall.fn \in {"parseJsonl", "handleSearch"} => currentPage = 0)
    /\ [][(/\ lastCall'.fn = "goToPage"
           /\ lastCall'.page \notin 0..(PagesFor(Len(filteredEntries)) - 1))
             => UNCHANGED <<validEntries, invalidEntries, filteredEntries,
                            currentPage, rendered, pagination, searchInput>>]_vars

\* the last page of three is shown, after a search, when the next page is
\* asked for
C38_Witness ==
    /\ Len(filteredEntries) = 101
    /\ currentPage = 2
    /\ searchInput # <<>>
    /\ lastCall = [fn |-> "goToPage", page |-> 3]

(***************************************************************************)
(* Properties of the GIF converter.                                        *)
(***************************************************************************)
\* C39: a generated GIF is there for download only while the video file is
\* set, and the step that publishes a GIF publishes that of a conversion
\* that was not cancelled and whose video is still the current one, never
\* reset since the conversion started
C39_GifOnlyForCurrentVideo ==
    /\ [](generatedGifBlob # NoBlob => currentFile # 0)
    /\ [][(generatedGifBlob' # generatedGifBlob /\ generatedGifBlob' # NoBlob) =>
             /\ ~generatedGifBlob'.cancelled
             /\ ~generatedGifBlob'.replaced
             /\ generatedGifBlob'.file = currentFile]_vars
====
